---- MODULE Spec2Model ----
(***************************************************************************)
(* A model of the chatbot application's session persistence (ChatDatabase  *)
(* over SQLite), in-memory session management (ChatSession,                *)
(* SessionManager), model dispatch (ModelManager and its services) and the *)
(* submission pipeline of the chat interface.                              *)
(***************************************************************************)
EXTENDS Integers, Sequences, FiniteSets, TLC

(***************************************************************************)
(* Bounds of the model.                                                    *)
(***************************************************************************)
\* number of distinct uuid4 values create_new_session can draw
NumSessionIds == 2
\* longest in-memory message list explored
MaxMessages == 2
\* largest reading of the wall clock
MaxTime == 1
\* longest raw text a generation pipeline yields, in tokens
MaxGenLen == 3

SessionIds == 1..NumSessionIds
Times == 0..MaxTime

Max(a, b) == IF a >= b THEN a ELSE b
Min(a, b) == IF a <= b THEN a ELSE b

(***************************************************************************)
(* chat_models.py                                                          *)
(***************************************************************************)
\* MessageType: member name -> value
MessageType == [USER |-> "user", BOT |-> "bot", SYSTEM |-> "system"]

\* MessageType(value): the member carrying that value
MessageTypeOf(v) == CHOOSE n \in DOMAIN MessageType : MessageType[n] = v

\* ChatTheme: member name -> value
ChatTheme == [DEFAULT |-> "default", DARK |-> "dark", BLUE |-> "blue"]

\* Message(content, message_type, timestamp=datetime.now(), metadata={})
Message(content, message_type, timestamp) ==
    [content |-> content, message_type |-> message_type,
     timestamp |-> timestamp, metadata |-> <<>>]

\* ChatSession(session_id): created_at and updated_at default to now()
ChatSession(session_id, now) ==
    [session_id |-> session_id, messages |-> <<>>,
     created_at |-> now, updated_at |-> now,
     theme |-> "DEFAULT", model_name |-> "flan-t5-base"]

\* ChatSession.add_message: append, then updated_at = datetime.now()
add_message(session, message, now) ==
    [session EXCEPT !.messages = Append(@, message), !.updated_at = now]

(***************************************************************************)
(* Text of timestamps.  A time t counts half seconds; datetime.isoformat() *)
(* writes the seconds zero padded and appends the fraction only when the   *)
(* microsecond field is not zero.  The date, hour and minute prefix is the *)
(* same in every value and is left out.  Characters are their ASCII codes, *)
(* so that text compares as SQLite compares TEXT (bytewise, a proper       *)
(* prefix first).                                                          *)
(***************************************************************************)
Digit(n) == 48 + n

isoformat(t) ==
    LET sec == t \div 2
        half == t % 2
    IN  <<Digit(sec \div 10), Digit(sec % 10)>>
            \o (IF half = 1 THEN <<46, Digit(5)>> ELSE <<>>)

fromisoformat(s) ==
    ((s[1] - 48) * 10 + (s[2] - 48)) * 2
        + (IF Len(s) > 2 THEN (s[4] - 48) \div 5 ELSE 0)

\* bytewise comparison of two TEXT values
TextLess(a, b) ==
    \E k \in 1..(Len(b)) :
        /\ \A i \in 1..(k - 1) : i <= Len(a) /\ a[i] = b[i]
        /\ \/ k > Len(a)
           \/ k <= Len(a) /\ a[k] < b[k]

\* json.dumps / json.loads of a message's metadata dict (always empty here)
json_dumps(d) == IF d = <<>> THEN "{}" ELSE "{...}"
json_loads(s) == <<>>

(***************************************************************************)
(* Text.  A string is matched through its characters; Chars gives the      *)
(* characters of the strings that occur as message content or as query.    *)
(***************************************************************************)
\* a message content longer than the 200 characters build_context_prompt
\* keeps of one
LongContent ==
    "hello, here is a long note about the plan for the week: on monday we review the budget, on tuesday we meet the team, on wednesday we write the report, on thursday we test the release, on friday we ship it and rest."

Chars ==
    (LongContent :>
        <<"h", "e", "l", "l", "o", ",", " ", "h", "e", "r", "e", " ", "i",
          "s", " ", "a", " ", "l", "o", "n", "g", " ", "n", "o", "t", "e",
          " ", "a", "b", "o", "u", "t", " ", "t", "h", "e", " ", "p", "l",
          "a", "n", " ", "f", "o", "r", " ", "t", "h", "e", " ", "w", "e",
          "e", "k", ":", " ", "o", "n", " ", "m", "o", "n", "d", "a", "y",
          " ", "w", "e", " ", "r", "e", "v", "i", "e", "w", " ", "t", "h",
          "e", " ", "b", "u", "d", "g", "e", "t", ",", " ", "o", "n", " ",
          "t", "u", "e", "s", "d", "a", "y", " ", "w", "e", " ", "m", "e",
          "e", "t", " ", "t", "h", "e", " ", "t", "e", "a", "m", ",", " ",
          "o", "n", " ", "w", "e", "d", "n", "e", "s", "d", "a", "y", " ",
          "w", "e", " ", "w", "r", "i", "t", "e", " ", "t", "h", "e", " ",
          "r", "e", "p", "o", "r", "t", ",", " ", "o", "n", " ", "t", "h",
          "u", "r", "s", "d", "a", "y", " ", "w", "e", " ", "t", "e", "s",
          "t", " ", "t", "h", "e", " ", "r", "e", "l", "e", "a", "s", "e",
          ",", " ", "o", "n", " ", "f", "r", "i", "d", "a", "y", " ", "w",
          "e", " ", "s", "h", "i", "p", " ", "i", "t", " ", "a", "n", "d",
          " ", "r", "e", "s", "t", ".">>) @@
    ("Relevant information from previous conversations:" :>
        <<"R", "e", "l", "e", "v", "a", "n", "t", " ", "i", "n", "f", "o",
          "r", "m", "a", "t", "i", "o", "n", " ", "f", "r", "o", "m", " ",
          "p", "r", "e", "v", "i", "o", "u", "s", " ", "c", "o", "n", "v",
          "e", "r", "s", "a", "t", "i", "o", "n", "s", ":">>) @@
    ("Context from previous conversations:" :>
        <<"C", "o", "n", "t", "e", "x", "t", " ", "f", "r", "o", "m", " ",
          "p", "r", "e", "v", "i", "o", "u", "s", " ", "c", "o", "n", "v",
          "e", "r", "s", "a", "t", "i", "o", "n", "s", ":">>) @@
    ("Current question: " :>
        <<"C", "u", "r", "r", "e", "n", "t", " ", "q", "u", "e", "s", "t",
          "i", "o", "n", ":", " ">>) @@
    ("Please answer the current question, using the context above if relevant:" :>
        <<"P", "l", "e", "a", "s", "e", " ", "a", "n", "s", "w", "e", "r",
          " ", "t", "h", "e", " ", "c", "u", "r", "r", "e", "n", "t", " ",
          "q", "u", "e", "s", "t", "i", "o", "n", ",", " ", "u", "s", "i",
          "n", "g", " ", "t", "h", "e", " ", "c", "o", "n", "t", "e", "x",
          "t", " ", "a", "b", "o", "v", "e", " ", "i", "f", " ", "r", "e",
          "l", "e", "v", "a", "n", "t", ":">>) @@
    ("..." :>
        <<".", ".", ".">>) @@
    ("Hello! I'm SmartBot Pro. How can I assist you today?" :>
        <<"H", "e", "l", "l", "o", "!", " ", "I", "'", "m", " ", "S", "m",
          "a", "r", "t", "B", "o", "t", " ", "P", "r", "o", ".", " ", "H",
          "o", "w", " ", "c", "a", "n", " ", "I", " ", "a", "s", "s", "i",
          "s", "t", " ", "y", "o", "u", " ", "t", "o", "d", "a", "y", "?">>) @@
    ("What is 2+2?" :>
        <<"W", "h", "a", "t", " ", "i", "s", " ", "2", "+", "2", "?">>) @@
    ("2+2" :>
        <<"2", "+", "2">>) @@
    ("hello" :>
        <<"h", "e", "l", "l", "o">>) @@
    ("_s" :>
        <<"_", "s">>) @@
    ("nothing" :>
        <<"n", "o", "t", "h", "i", "n", "g">>) @@
    ("help me" :>
        <<"h", "e", "l", "p", " ", "m", "e">>) @@
    ("Why?" :>
        <<"W", "h", "y", "?">>) @@
    ("ok" :>
        <<"o", "k">>) @@
    ("this" :>
        <<"t", "h", "i", "s">>) @@
    ("What is after a?" :>
        <<"W", "h", "a", "t", " ", "i", "s", " ", "a", "f", "t", "e", "r",
          " ", "a", "?">>) @@
    ("hi" :>
        <<"h", "i">>) @@
    ("hey" :>
        <<"h", "e", "y">>) @@
    ("help" :>
        <<"h", "e", "l", "p">>) @@
    ("what" :>
        <<"w", "h", "a", "t">>) @@
    ("how" :>
        <<"h", "o", "w">>) @@
    ("?" :>
        <<"?">>) @@
    ("how are you after all" :>
        <<"h", "o", "w", " ", "a", "r", "e", " ", "y", "o", "u", " ", "a",
          "f", "t", "e", "r", " ", "a", "l", "l">>) @@
    ("" :> <<>>) @@
    ("hello      " :>
        <<"h", "e", "l", "l", "o", " ", " ", " ", " ", " ", " ">>)

UpperToLower ==
    [A |-> "a", B |-> "b", C |-> "c", D |-> "d", E |-> "e", F |-> "f",
     G |-> "g", H |-> "h", I |-> "i", J |-> "j", K |-> "k", L |-> "l",
     M |-> "m", N |-> "n", O |-> "o", P |-> "p", Q |-> "q", R |-> "r",
     S |-> "s", T |-> "t", U |-> "u", V |-> "v", W |-> "w", X |-> "x",
     Y |-> "y", Z |-> "z"]

\* ASCII case folding of one character
LowerChar(c) == IF c \in DOMAIN UpperToLower THEN UpperToLower[c] ELSE c

\* str.lower()
Lower(t) == [i \in 1..Len(t) |-> LowerChar(t[i])]

\* the LIKE operator of SQLite on pattern p and text t, from positions i and
\* j on: "%" matches any run of characters, "_" any one character, every
\* other character itself without regard to ASCII case
RECURSIVE LikeFrom(_, _, _, _)
LikeFrom(p, i, t, j) ==
    IF i > Len(p) THEN j > Len(t)
    ELSE IF p[i] = "%"
         THEN \E k \in j..(Len(t) + 1) : LikeFrom(p, i + 1, t, k)
         ELSE /\ j <= Len(t)
              /\ p[i] = "_" \/ LowerChar(p[i]) = LowerChar(t[j])
              /\ LikeFrom(p, i + 1, t, j + 1)

Like(t, p) == LikeFrom(p, 1, t, 1)

(***************************************************************************)
(* database_service.py: the two tables and the statements run on them.     *)
(* A database value is [chat_sessions |-> set of rows (id is the primary   *)
(* key), messages |-> rows in rowid order].  The uuid4 primary key of a    *)
(* message row is fresh on every insert and is never selected, so rows do  *)
(* not carry it.                                                           *)
(***************************************************************************)
\* a session row whose message_count is left at the column default
SessionRowDefaultCount(session, name, description) ==
    [id |-> session.session_id,
     name |-> name,
     description |-> description,
     created_at |-> isoformat(session.created_at),
     updated_at |-> isoformat(session.updated_at),
     message_count |-> 0,
     metadata |-> [theme |-> ChatTheme[session.theme],
                   model_name |-> session.model_name]]

\* the values bound to INSERT OR REPLACE INTO chat_sessions
SessionRow(session, name, description) ==
    [id |-> session.session_id,
     name |-> name,
     description |-> description,
     created_at |-> isoformat(session.created_at),
     updated_at |-> isoformat(session.updated_at),
     message_count |-> Len(session.messages),
     metadata |-> [theme |-> ChatTheme[session.theme],
                   model_name |-> session.model_name]]

\* a table without a primary key: the row of an earlier save is kept
InsertKeepingOld(table, row) == table \cup {row}

\* INSERT OR REPLACE: a row with the same primary key is removed first
InsertOrReplace(table, row) ==
    {r \in table : r.id # row.id} \cup {row}

\* SELECT ... FROM messages WHERE session_id = ?
SelectMessages(rows, session_id) ==
    SelectSeq(rows, LAMBDA r : r.session_id = session_id)

\* a save that keeps the rows of earlier saves: nothing is deleted
DeleteNothing(rows, session_id) == rows

\* DELETE FROM messages WHERE session_id = ?
DeleteMessages(rows, session_id) ==
    SelectSeq(rows, LAMBDA r : r.session_id # session_id)

\* DELETE FROM chat_sessions WHERE id = ?
DeleteSessionRows(table, session_id) ==
    {r \in table : r.id # session_id}

\* the values bound to INSERT INTO messages
MessageRow(session_id, message) ==
    [session_id |-> session_id,
     content |-> message.content,
     message_type |-> MessageType[message.message_type],
     timestamp |-> isoformat(message.timestamp),
     metadata |-> json_dumps(message.metadata)]

\* number of steps of the save transaction: upsert, delete, one insert per
\* message, commit
SaveSteps(session) == Len(session.messages) + 3

\* the connection's view after the first n steps of save_chat_session
SaveWork(db, session, name, description, n) ==
    LET sid == session.session_id
        s1 == IF n >= 1
              THEN InsertOrReplace(db.chat_sessions,
                                   SessionRow(session, name, description))
              ELSE db.chat_sessions
        m1 == IF n >= 2 THEN DeleteMessages(db.messages, sid)
              ELSE db.messages
        k == Min(Max(n - 2, 0), Len(session.messages))
        m2 == m1 \o [i \in 1..k |-> MessageRow(sid, session.messages[i])]
    IN  [chat_sessions |-> s1, messages |-> m2]

\* a connection in autocommit mode: what ran before the error stays
ConnExitNoRollback(before, work, raised) == work

\* leaving "with sqlite3.connect(...) as conn": the open transaction is
\* committed when the body finished and rolled back when it raised
ConnExit(before, work, raised) == IF raised THEN before ELSE work

\* save_chat_session; failAt = 0: no storage error, failAt = k: step k raises.
\* deleted is the rowcount of its DELETE FROM messages statement
save_chat_session(db, session, name, description, failAt) ==
    LET raised == failAt # 0
        done == IF raised THEN failAt - 1 ELSE SaveSteps(session)
        work == SaveWork(db, session, name, description, done)
    IN  [db |-> ConnExit(db, work, raised), ret |-> ~raised,
         deleted |-> IF done >= 2
                     THEN Len(SelectMessages(db.messages, session.session_id))
                     ELSE 0]

Orderings(n) ==
    {p \in [1..n -> 1..n] : \A i, j \in 1..n : p[i] = p[j] => i = j}

\* ORDER BY timestamp ASC: every order of the rows that is ascending in the
\* timestamp text; SQL leaves the order of rows with equal keys open
OrderByTimestampAsc(rows) ==
    LET n == Len(rows)
        ok(p) == \A i, j \in 1..n :
                    i < j => ~TextLess(rows[p[j]].timestamp,
                                        rows[p[i]].timestamp)
    IN  {[i \in 1..n |-> rows[p[i]]] : p \in {q \in Orderings(n) : ok(q)}}

\* Message(...) built from a selected row
MessageOfRow(row) ==
    [content |-> row.content,
     message_type |-> MessageTypeOf(row.message_type),
     timestamp |-> fromisoformat(row.timestamp),
     metadata |-> json_loads(row.metadata)]

\* Optional[ChatSession]: <<>> is None, <<s>> is the session s
None == <<>>

\* load_chat_session: the set of values the call can return
load_chat_session(db, session_id, fault) ==
    LET found == {r \in db.chat_sessions : r.id = session_id}
    IN  IF fault \/ found = {} THEN {None}
        ELSE LET row == CHOOSE r \in found : TRUE
             IN  {<<[session_id |-> row.id,
                     messages |-> [i \in 1..Len(o) |-> MessageOfRow(o[i])],
                     created_at |-> fromisoformat(row.created_at),
                     updated_at |-> fromisoformat(row.updated_at),
                     theme |-> "DEFAULT",
                     model_name |-> row.metadata.model_name]>> :
                    o \in OrderByTimestampAsc(
                              SelectMessages(db.messages, session_id))}

\* the rowcount is not consulted: every delete that commits reports a row
RowcountIgnored(table, session_id) == 1

\* number of rows the DELETE FROM chat_sessions statement removed
SessionRowcount(table, session_id) ==
    Cardinality({r \in table : r.id = session_id})

\* a delete that removes the session row and leaves its message rows
delete_session_row_only(db, session_id, fault) ==
    LET work == [chat_sessions |->
                     DeleteSessionRows(db.chat_sessions, session_id),
                 messages |-> db.messages]
    IN  [db |-> ConnExit(db, work, fault),
         ret |-> IF fault THEN FALSE
                 ELSE SessionRowcount(db.chat_sessions, session_id) > 0,
         deleted |-> IF fault THEN 0
                     ELSE Len(SelectMessages(db.messages, session_id))]

\* delete_chat_session: messages first, then the session row; the result is
\* cursor.rowcount > 0 of the last statement
delete_chat_session(db, session_id, fault) ==
    LET work == [chat_sessions |->
                     DeleteSessionRows(db.chat_sessions, session_id),
                 messages |-> DeleteMessages(db.messages, session_id)]
    IN  [db |-> ConnExit(db, work, fault),
         ret |-> IF fault THEN FALSE
                 ELSE SessionRowcount(db.chat_sessions, session_id) > 0,
         deleted |-> IF fault THEN 0
                     ELSE Len(SelectMessages(db.messages, session_id))]

\* ORDER BY updated_at DESC over the session rows: every enumeration of the
\* rows that is descending in the updated_at text
OrderByUpdatedDesc(table) ==
    LET n == Cardinality(table)
    IN  {q \in [1..n -> table] :
            /\ \A i, j \in 1..n : q[i] = q[j] => i = j
            /\ \A i, j \in 1..n :
                  i < j => ~TextLess(q[i].updated_at, q[j].updated_at)}

\* get_all_chat_sessions: the set of lists the call can return
get_all_chat_sessions(db, fault) ==
    IF fault THEN {<<>>}
    ELSE {[i \in 1..Len(q) |->
              [id |-> q[i].id, name |-> q[i].name,
               description |-> q[i].description,
               created_at |-> q[i].created_at,
               updated_at |-> q[i].updated_at,
               message_count |-> q[i].message_count]] :
            q \in OrderByUpdatedDesc(db.chat_sessions)}

\* messages m JOIN chat_sessions s ON m.session_id = s.id WHERE m.content
\* LIKE '%query%': the positions of the matching message rows, each with its
\* session row
SearchMatches(db, query) ==
    {<<i, s>> \in (1..Len(db.messages)) \X db.chat_sessions :
        /\ db.messages[i].session_id = s.id
        /\ Like(Chars[db.messages[i].content],
                <<"%">> \o Chars[query] \o <<"%">>)}

\* ORDER BY m.timestamp DESC LIMIT ?: the first rows of every enumeration of
\* the matches that is descending in the timestamp text, which are the lists
\* of distinct matches, descending, that no match left out comes before
OrderByTimestampDescLimit(db, matches, limit) ==
    LET n == Cardinality(matches)
        k == Min(n, Max(limit, 0))
        ts(m) == db.messages[m[1]].timestamp
    IN  {q \in [1..k -> matches] :
            /\ \A i, j \in 1..k : q[i] = q[j] => i = j
            /\ \A i, j \in 1..k : i < j => ~TextLess(ts(q[i]), ts(q[j]))
            /\ \A m \in matches :
                  (\A i \in 1..k : q[i] # m)
                      => \A i \in 1..k : ~TextLess(ts(q[i]), ts(m))}

\* search_messages: the set of lists the call can return
search_messages(db, query, limit, fault) ==
    IF fault THEN {<<>>}
    ELSE {[i \in 1..Len(q) |->
              [content |-> db.messages[q[i][1]].content,
               message_type |-> db.messages[q[i][1]].message_type,
               timestamp |-> db.messages[q[i][1]].timestamp,
               session_name |-> q[i][2].name,
               session_id |-> q[i][2].id]] :
            q \in OrderByTimestampDescLimit(db, SearchMatches(db, query),
                                            limit)}

\* get_chat_statistics: <<>> is the empty dict; latest_activity is <<>> for
\* None and <<text>> for the greatest updated_at
get_chat_statistics(db, fault) ==
    IF fault THEN <<>>
    ELSE <<[total_sessions |-> Cardinality(db.chat_sessions),
            total_messages |-> Len(db.messages),
            latest_activity |->
                IF db.chat_sessions = {} THEN <<>>
                ELSE LET top == CHOOSE r \in db.chat_sessions :
                                    \A o \in db.chat_sessions :
                                        ~TextLess(r.updated_at, o.updated_at)
                     IN  <<top.updated_at>>]>>

(***************************************************************************)
(* ai_service.py.  A response is a sequence of tokens; a canned answer is  *)
(* one token.  The raw text of a generation pipeline is made of the tokens *)
(* "Answer:" (the marker the service splits on), " " (whitespace) and      *)
(* "word" (any other text).                                                *)
(***************************************************************************)
\* ModelConfig.AVAILABLE_MODELS, in the order of the dict
ModelKeys == <<"flan-t5-base", "flan-t5-small", "dialogpt">>

ModelId ==
    [i \in 1..Len(ModelKeys) |->
        <<"google/flan-t5-base", "google/flan-t5-small",
          "microsoft/DialoGPT-medium">>[i]]

KeyIndex(key) == CHOOSE i \in 1..Len(ModelKeys) : ModelKeys[i] = key

\* what building one service does: _load_model returns a pipeline
\* ("loaded"), returns (None, None) ("failed"), or the constructor raises
LoadOutcomes == {"loaded", "failed", "raises"}

\* HuggingFaceModelService.__init__: pipeline and tokenizer are set to None
\* and _load_model() is called; what it returns is not assigned
HuggingFaceModelService(model_name, outcome) ==
    [kind |-> "HuggingFaceModelService", model_name |-> model_name,
     pipeline |-> "None"]

\* FallbackModelService()
FallbackModelService ==
    [kind |-> "FallbackModelService", model_name |-> "fallback",
     pipeline |-> "None"]

\* is_available of either service
is_available(service, transformers) ==
    IF service.kind = "FallbackModelService" THEN TRUE
    ELSE transformers /\ service.pipeline # "None"

\* the elements of the fallback's patterns: <<"lit", c>> is the character
\* c, <<"any">> is ".*", <<"ws">> is "\s*"; a pattern is its alternatives
\* (the parts between "|"), and (?i) holds for all of them
FallbackResponses ==
    <<
      [pattern |-> <<
          <<<<"lit", "w">>, <<"lit", "h">>, <<"lit", "a">>, <<"lit", "t">>,
            <<"any">>, <<"lit", "2">>, <<"ws">>, <<"lit", "+">>, <<"ws">>,
            <<"lit", "2">>>>,
          <<<<"lit", "2">>, <<"ws">>, <<"lit", "+">>, <<"ws">>,
            <<"lit", "2">>>>>>,
       response |->
         "4"],
      [pattern |-> <<
          <<<<"lit", "w">>, <<"lit", "h">>, <<"lit", "a">>, <<"lit", "t">>,
            <<"any">>, <<"lit", "5">>, <<"ws">>, <<"lit", "*">>, <<"ws">>,
            <<"lit", "5">>>>,
          <<<<"lit", "5">>, <<"ws">>, <<"lit", "*">>, <<"ws">>,
            <<"lit", "5">>>>>>,
       response |->
         "25"],
      [pattern |-> <<
          <<<<"lit", "w">>, <<"lit", "h">>, <<"lit", "a">>, <<"lit", "t">>,
            <<"any">>, <<"lit", "1">>, <<"lit", "0">>, <<"ws">>,
            <<"lit", "-">>, <<"ws">>, <<"lit", "3">>>>,
          <<<<"lit", "1">>, <<"lit", "0">>, <<"ws">>, <<"lit", "-">>,
            <<"ws">>, <<"lit", "3">>>>>>,
       response |->
         "7"],
      [pattern |-> <<
          <<<<"lit", "c">>, <<"lit", "a">>, <<"lit", "p">>, <<"lit", "i">>,
            <<"lit", "t">>, <<"lit", "a">>, <<"lit", "l">>, <<"any">>,
            <<"lit", "i">>, <<"lit", "n">>, <<"lit", "d">>, <<"lit", "i">>,
            <<"lit", "a">>>>>>,
       response |->
         "New Delhi is the capital of India."],
      [pattern |-> <<
          <<<<"lit", "c">>, <<"lit", "a">>, <<"lit", "p">>, <<"lit", "i">>,
            <<"lit", "t">>, <<"lit", "a">>, <<"lit", "l">>, <<"any">>,
            <<"lit", "f">>, <<"lit", "r">>, <<"lit", "a">>, <<"lit", "n">>,
            <<"lit", "c">>, <<"lit", "e">>>>>>,
       response |->
         "Paris is the capital of France."],
      [pattern |-> <<
          <<<<"lit", "c">>, <<"lit", "a">>, <<"lit", "p">>, <<"lit", "i">>,
            <<"lit", "t">>, <<"lit", "a">>, <<"lit", "l">>, <<"any">>,
            <<"lit", "j">>, <<"lit", "a">>, <<"lit", "p">>, <<"lit", "a">>,
            <<"lit", "n">>>>>>,
       response |->
         "Tokyo is the capital of Japan."],
      [pattern |-> <<
          <<<<"lit", "a">>, <<"lit", "f">>, <<"lit", "t">>, <<"lit", "e">>,
            <<"lit", "r">>, <<"any">>, <<"lit", "a">>>>,
          <<<<"lit", "l">>, <<"lit", "e">>, <<"lit", "t">>, <<"lit", "t">>,
            <<"lit", "e">>, <<"lit", "r">>, <<"any">>, <<"lit", "a">>,
            <<"lit", "f">>, <<"lit", "t">>, <<"lit", "e">>, <<"lit", "r">>,
            <<"any">>, <<"lit", "a">>>>>>,
       response |->
         "B comes after A in the alphabet."],
      [pattern |-> <<
          <<<<"lit", "h">>, <<"lit", "e">>, <<"lit", "l">>, <<"lit", "l">>,
            <<"lit", "o">>>>,
          <<<<"lit", "h">>, <<"lit", "i">>>>,
          <<<<"lit", "h">>, <<"lit", "e">>, <<"lit", "y">>>>>>,
       response |->
         "Hello! I'm running in basic mode. How can I help you?"],
      [pattern |-> <<
          <<<<"lit", "h">>, <<"lit", "o">>, <<"lit", "w">>, <<"any">>,
            <<"lit", "y">>, <<"lit", "o">>, <<"lit", "u">>>>>>,
       response |->
         "I'm doing well, thank you for asking!"],
      [pattern |-> <<
          <<<<"lit", "w">>, <<"lit", "e">>, <<"lit", "a">>, <<"lit", "t">>,
            <<"lit", "h">>, <<"lit", "e">>, <<"lit", "r">>>>>>,
       response |->
         "I don't have access to current weather data. Please check a weather service."],
      [pattern |-> <<
          <<<<"lit", "p">>, <<"lit", "h">>, <<"lit", "o">>, <<"lit", "t">>,
            <<"lit", "o">>, <<"lit", "s">>, <<"lit", "y">>, <<"lit", "n">>,
            <<"lit", "t">>, <<"lit", "h">>, <<"lit", "e">>, <<"lit", "s">>,
            <<"lit", "i">>, <<"lit", "s">>>>>>,
       response |->
         "Photosynthesis is the process by which plants use sunlight, water, and carbon dioxide to create glucose and oxygen."],
      [pattern |-> <<
          <<<<"lit", "g">>, <<"lit", "r">>, <<"lit", "a">>, <<"lit", "v">>,
            <<"lit", "i">>, <<"lit", "t">>, <<"lit", "y">>>>>>,
       response |->
         "Gravity is the force that attracts objects toward each other, keeping us on Earth's surface."]
    >>

Whitespace == {" ", "\t", "\n"}

\* the pattern alternative alt matches text t at position j, from element i
RECURSIVE MatchFrom(_, _, _, _)
MatchFrom(alt, i, t, j) ==
    IF i > Len(alt) THEN TRUE
    ELSE IF alt[i][1] = "any"
         THEN \E k \in j..(Len(t) + 1) :
                 /\ \A x \in j..(k - 1) : t[x] # "\n"
                 /\ MatchFrom(alt, i + 1, t, k)
    ELSE IF alt[i][1] = "ws"
         THEN \E k \in j..(Len(t) + 1) :
                 /\ \A x \in j..(k - 1) : t[x] \in Whitespace
                 /\ MatchFrom(alt, i + 1, t, k)
    ELSE /\ j <= Len(t)
         /\ LowerChar(alt[i][2]) = LowerChar(t[j])
         /\ MatchFrom(alt, i + 1, t, j + 1)

\* re.search(pattern, text)
re_search(pattern, t) ==
    \E a \in 1..Len(pattern) :
        \E j \in 1..(Len(t) + 1) : MatchFrom(pattern[a], 1, t, j)

\* word in text
Contains(t, word) ==
    \E j \in 1..(Len(t) - Len(word) + 1) :
        \A x \in 1..Len(word) : t[j + x - 1] = word[x]

\* the patterns are searched in the context followed by the prompt
fallback_reads_context(prompt, context) ==
    LET t == Chars[context] \o Chars[prompt]
        prompt_lower == Lower(t)
        hits == {i \in 1..Len(FallbackResponses) :
                    re_search(FallbackResponses[i].pattern, t)}
    IN  IF hits # {}
        THEN <<FallbackResponses[
                   CHOOSE i \in hits : \A o \in hits : i <= o].response>>
        ELSE IF \E w \in {"hello", "hi", "hey"} :
                    Contains(prompt_lower, Chars[w])
        THEN <<"Hello! I'm currently in basic mode. How can I assist you today?">>
        ELSE IF \E w \in {"help", "what", "how"} :
                    Contains(prompt_lower, Chars[w])
        THEN <<"I'm here to help! I can answer basic questions about math, geography, and general knowledge.">>
        ELSE IF Contains(t, Chars["?"])
        THEN <<"That's an interesting question! Unfortunately, I'm running in basic mode and may not have the full answer.">>
        ELSE <<"I understand you're trying to communicate with me. I'm currently in basic mode with limited capabilities.">>

\* the last matching entry of the table answers
fallback_last_match(prompt, context) ==
    LET t == Chars[prompt]
        prompt_lower == Lower(t)
        hits == {i \in 1..Len(FallbackResponses) :
                    re_search(FallbackResponses[i].pattern, t)}
    IN  IF hits # {}
        THEN <<FallbackResponses[
                   CHOOSE i \in hits : \A o \in hits : o <= i].response>>
        ELSE IF \E w \in {"hello", "hi", "hey"} :
                    Contains(prompt_lower, Chars[w])
        THEN <<"Hello! I'm currently in basic mode. How can I assist you today?">>
        ELSE IF \E w \in {"help", "what", "how"} :
                    Contains(prompt_lower, Chars[w])
        THEN <<"I'm here to help! I can answer basic questions about math, geography, and general knowledge.">>
        ELSE IF Contains(t, Chars["?"])
        THEN <<"That's an interesting question! Unfortunately, I'm running in basic mode and may not have the full answer.">>
        ELSE <<"I understand you're trying to communicate with me. I'm currently in basic mode with limited capabilities.">>

\* FallbackModelService.generate_response
fallback_generate_response(prompt, context) ==
    LET t == Chars[prompt]
        prompt_lower == Lower(t)
        hits == {i \in 1..Len(FallbackResponses) :
                    re_search(FallbackResponses[i].pattern, t)}
    IN  IF hits # {}
        THEN <<FallbackResponses[
                   CHOOSE i \in hits : \A o \in hits : i <= o].response>>
        ELSE IF \E w \in {"hello", "hi", "hey"} :
                    Contains(prompt_lower, Chars[w])
        THEN <<"Hello! I'm currently in basic mode. How can I assist you today?">>
        ELSE IF \E w \in {"help", "what", "how"} :
                    Contains(prompt_lower, Chars[w])
        THEN <<"I'm here to help! I can answer basic questions about math, geography, and general knowledge.">>
        ELSE IF Contains(t, Chars["?"])
        THEN <<"That's an interesting question! Unfortunately, I'm running in basic mode and may not have the full answer.">>
        ELSE <<"I understand you're trying to communicate with me. I'm currently in basic mode with limited capabilities.">>

\* the tokens of a pipeline's raw text
GenTokens == {"Answer:", " ", "word"}

\* what calling the pipeline does: it raises, or it returns a result whose
\* generated_text is text; malformed: the result has no such entry
GenOutcomes ==
    {[kind |-> k, text |-> <<>>] : k \in {"raises", "malformed"}}
        \cup {[kind |-> "text", text |-> g] :
                g \in UNION {[1..n -> GenTokens] : n \in 0..MaxGenLen}}

\* response.split("Answer:")[-1]
AfterLastMarker(r) ==
    LET marks == {i \in 1..Len(r) : r[i] = "Answer:"}
        m == CHOOSE i \in marks : \A o \in marks : o <= i
    IN  SubSeq(r, m + 1, Len(r))

\* str.strip()
Strip(r) ==
    LET solid == {i \in 1..Len(r) : r[i] # " "}
    IN  IF solid = {} THEN <<>>
        ELSE SubSeq(r, CHOOSE i \in solid : \A o \in solid : i <= o,
                       CHOOSE i \in solid : \A o \in solid : o <= i)

\* the service returns the cleaned text even when it is empty
hf_generate_response_unguarded(service, transformers, prompt, context, out) ==
    IF ~is_available(service, transformers)
    THEN [ret |-> <<"Sorry, the AI model is not available right now.">>,
          raised |-> FALSE]
    ELSE IF out.kind # "text"
    THEN [ret |-> <<"Sorry, I encountered an error while processing your request.">>,
          raised |-> FALSE]
    ELSE [ret |-> IF \E i \in 1..Len(out.text) : out.text[i] = "Answer:"
                  THEN Strip(AfterLastMarker(out.text))
                  ELSE out.text,
          raised |-> FALSE]

\* HuggingFaceModelService.generate_response
hf_generate_response(service, transformers, prompt, context, out) ==
    IF ~is_available(service, transformers)
    THEN [ret |-> <<"Sorry, the AI model is not available right now.">>,
          raised |-> FALSE]
    ELSE IF out.kind # "text"
    THEN [ret |-> <<"Sorry, I encountered an error while processing your request.">>,
          raised |-> FALSE]
    ELSE LET response ==
                 IF \E i \in 1..Len(out.text) : out.text[i] = "Answer:"
                 THEN Strip(AfterLastMarker(out.text))
                 ELSE out.text
         IN  [ret |-> IF response # <<>> THEN response
                      ELSE <<"I'm not sure how to respond to that.">>,
              raised |-> FALSE]

\* generate_response of whichever service
service_generate_response(service, transformers, prompt, context, out) ==
    IF service.kind = "FallbackModelService"
    THEN [ret |-> fallback_generate_response(prompt, context),
          raised |-> FALSE]
    ELSE hf_generate_response(service, transformers, prompt, context, out)

\* ModelManager.generate_response(prompt, context)
generate_response(current, transformers, prompt, context, out) ==
    IF current.kind # "None"
    THEN service_generate_response(current, transformers, prompt, context,
                                   out)
    ELSE service_generate_response(FallbackModelService, transformers,
                                   prompt, context, out)

\* ModelManager._initialize_models, the loop over the configured models:
\* the registry and the current model after the first n entries
RECURSIVE InitializeFrom(_, _, _)
InitializeFrom(n, transformers, outcomes) ==
    IF n = 0 THEN [available_models |-> <<>>, current_model |-> <<>>]
    ELSE LET before == InitializeFrom(n - 1, transformers, outcomes)
             key == ModelKeys[n]
             model_service ==
                 HuggingFaceModelService(ModelId[n], outcomes[n])
         IN  IF outcomes[n] # "raises"
                  /\ is_available(model_service, transformers)
             THEN [available_models |->
                       (key :> model_service) @@ before.available_models,
                   current_model |->
                       IF before.current_model = <<>>
                       THEN <<model_service>>
                       ELSE before.current_model]
             ELSE before

\* ModelManager.__init__ / _initialize_models: available_models maps each
\* registered key to its service
ModelManagerInit(transformers, outcomes) ==
    LET looped == IF transformers
                  THEN InitializeFrom(Len(ModelKeys), transformers, outcomes)
                  ELSE InitializeFrom(0, transformers, outcomes)
    IN  [available_models |-> looped.available_models,
         current_model |->
             IF looped.current_model = <<>> THEN FallbackModelService
             ELSE looped.current_model[1]]

(***************************************************************************)
(* rag_service.py, helpers.py and the call of the model in                 *)
(* chat_interface.py.                                                      *)
(***************************************************************************)
\* str.strip() of a text
StripText(t) ==
    LET solid == {i \in 1..Len(t) : t[i] \notin Whitespace}
    IN  IF solid = {} THEN <<>>
        ELSE SubSeq(t, CHOOSE i \in solid : \A o \in solid : i <= o,
                       CHOOSE i \in solid : \A o \in solid : o <= i)

\* documents chosen by the length of the content as it is, padding counted
IndexedDocumentsUntrimmed(session) ==
    {[id |-> <<session.session_id, i - 1>>,
      document |-> session.messages[i].content,
      metadata |->
          [session_id |-> session.session_id,
           message_type |-> MessageType[session.messages[i].message_type],
           timestamp |-> isoformat(session.messages[i].timestamp),
           message_index |-> i - 1]] :
        i \in {k \in 1..Len(session.messages) :
                  Len(Chars[session.messages[k].content]) > 10}}

\* the documents index_chat_session prepares from a loaded session: the id
\* f"{session_id}_{i}" is the pair <<session_id, i>>, i counting from 0
IndexedDocuments(session) ==
    {[id |-> <<session.session_id, i - 1>>,
      document |-> session.messages[i].content,
      metadata |->
          [session_id |-> session.session_id,
           message_type |-> MessageType[session.messages[i].message_type],
           timestamp |-> isoformat(session.messages[i].timestamp),
           message_index |-> i - 1]] :
        i \in {k \in 1..Len(session.messages) :
                  Len(StripText(Chars[session.messages[k].content])) > 10}}

\* documents added under ids not yet used, whatever the collection holds
upsert_appends(docs, new) ==
    docs \cup {[n EXCEPT !.id = <<n.id[1], n.id[2] + Cardinality(docs)>>] :
                 n \in new}

\* collection.upsert: a document with the id of a new one is replaced
upsert(docs, new) ==
    {d \in docs : \A n \in new : n.id # d.id} \cup new

\* what can go wrong in one index_chat_session call: the load hits a
\* storage error, or the upsert raises, with or without having written
IndexOutcomes ==
    {"ok", "load fails", "upsert raises", "upsert raises after writing"}

\* RAGService.index_chat_session(session_id): the set of results the call
\* can have, each with the collection after it, the value returned and the
\* session that was loaded
index_chat_session(available, coll, db, session_id, outcome) ==
    IF ~available \/ coll = None
    THEN {[collection |-> coll, ret |-> FALSE, loaded |-> None]}
    ELSE {IF loaded = None
          THEN [collection |-> coll, ret |-> FALSE, loaded |-> loaded]
          ELSE LET documents == IndexedDocuments(loaded[1])
               IN  IF documents = {}
                   THEN [collection |-> coll, ret |-> FALSE,
                         loaded |-> loaded]
                   ELSE IF outcome = "upsert raises"
                   THEN [collection |-> coll, ret |-> FALSE,
                         loaded |-> loaded]
                   ELSE IF outcome = "upsert raises after writing"
                   THEN [collection |-> <<upsert(coll[1], documents)>>,
                         ret |-> FALSE, loaded |-> loaded]
                   ELSE [collection |-> <<upsert(coll[1], documents)>>,
                         ret |-> TRUE, loaded |-> loaded] :
            loaded \in load_chat_session(db, session_id,
                                         outcome = "load fails")}

\* the loop of index_all_sessions over the listed sessions from the k-th on:
\* the set of results, each with the collection after it and the number of
\* calls that returned true; outcomes gives what goes wrong for each session
RECURSIVE IndexEach(_, _, _, _, _, _)
IndexEach(available, coll, db, sessions, k, outcomes) ==
    IF k > Len(sessions) THEN {[collection |-> coll, indexed_count |-> 0]}
    ELSE UNION {
           {[collection |-> rest.collection,
             indexed_count |->
                 rest.indexed_count + (IF one.ret THEN 1 ELSE 0)] :
              rest \in IndexEach(available, one.collection, db, sessions,
                                 k + 1, outcomes)} :
           one \in index_chat_session(available, coll, db, sessions[k].id,
                                      outcomes[sessions[k].id])}

\* a loop that ends at the first session whose indexing does not succeed
RECURSIVE IndexEachUntilFailure(_, _, _, _, _, _)
IndexEachUntilFailure(available, coll, db, sessions, k, outcomes) ==
    IF k > Len(sessions) THEN {[collection |-> coll, indexed_count |-> 0]}
    ELSE UNION {
           IF ~one.ret
           THEN {[collection |-> one.collection, indexed_count |-> 0]}
           ELSE {[collection |-> rest.collection,
                  indexed_count |-> rest.indexed_count + 1] :
                   rest \in IndexEachUntilFailure(available, one.collection,
                                                  db, sessions, k + 1,
                                                  outcomes)} :
           one \in index_chat_session(available, coll, db, sessions[k].id,
                                      outcomes[sessions[k].id])}

\* index_all_sessions with that loop
index_all_sessions_until_failure(available, coll, db, fault, outcomes) ==
    IF ~available THEN {[collection |-> coll, indexed_count |-> 0]}
    ELSE UNION {IndexEachUntilFailure(available, coll, db, sessions, 1,
                                      outcomes) :
                  sessions \in get_all_chat_sessions(db, fault)}

\* RAGService.index_all_sessions(): the set of results the call can have
index_all_sessions(available, coll, db, fault, outcomes) ==
    IF ~available THEN {[collection |-> coll, indexed_count |-> 0]}
    ELSE UNION {IndexEach(available, coll, db, sessions, 1, outcomes) :
                  sessions \in get_all_chat_sessions(db, fault)}

\* what can go wrong in one remove_session_from_index call: get or delete
\* raises, delete with or without having deleted
RemoveOutcomes == {"ok", "raises", "raises after deleting"}

\* a removal that empties the collection
remove_session_from_index_clears(available, coll, session_id, outcome) ==
    IF ~available \/ coll = None THEN [collection |-> coll, ret |-> TRUE]
    ELSE IF outcome = "raises" THEN [collection |-> coll, ret |-> FALSE]
    ELSE [collection |-> <<{}>>, ret |-> outcome = "ok"]

\* RAGService.remove_session_from_index(session_id)
remove_session_from_index(available, coll, session_id, outcome) ==
    IF ~available \/ coll = None THEN [collection |-> coll, ret |-> TRUE]
    ELSE LET ids == {d.id : d \in {x \in coll[1] :
                                      x.metadata.session_id = session_id}}
             kept == {d \in coll[1] : d.id \notin ids}
         IN  IF outcome = "raises" THEN [collection |-> coll, ret |-> FALSE]
             ELSE IF outcome = "raises after deleting"
             THEN [collection |-> IF ids # {} THEN <<kept>> ELSE coll,
                   ret |-> ids = {}]
             ELSE [collection |-> <<kept>>, ret |-> TRUE]

\* RAGService._text_search
text_search(db, query, max_results, fault) ==
    {[i \in 1..Len(found) |->
         [content |-> found[i].content,
          metadata |-> [session_id |-> found[i].session_id,
                        session_name |-> found[i].session_name,
                        message_type |-> found[i].message_type,
                        timestamp |-> found[i].timestamp],
          relevance_score |-> "0.5",
          source |-> "text_search"]] :
        found \in search_messages(db, query, max_results, fault)}

\* what the query of the collection does
QueryOutcomes == {"ok", "raises"}

\* the lists of n distinct documents of docs
Rankings(docs, n) ==
    {q \in [1..n -> docs] : \A i, j \in 1..n : q[i] = q[j] => i = j}

\* a vector search that answers with nothing when the query raises
vector_search_gives_up(coll, db, query, max_results, outcome, fault) ==
    IF outcome = "raises" THEN {<<>>}
    ELSE {[i \in 1..Len(q) |->
              [content |-> q[i].document,
               metadata |-> q[i].metadata,
               relevance_score |-> "1 - distance",
               source |-> "vector_search"]] :
            q \in Rankings(coll[1],
                           Min(max_results, Cardinality(coll[1])))}

\* RAGService._vector_search: the collection answers with its max_results
\* nearest documents, in an order the embedding decides, or the query
\* raises and the text search is used
vector_search(coll, db, query, max_results, outcome, fault) ==
    IF outcome = "raises" THEN text_search(db, query, max_results, fault)
    ELSE {[i \in 1..Len(q) |->
              [content |-> q[i].document,
               metadata |-> q[i].metadata,
               relevance_score |-> "1 - distance",
               source |-> "vector_search"]] :
            q \in Rankings(coll[1],
                           Min(max_results, Cardinality(coll[1])))}

\* RAGService.get_relevant_context
get_relevant_context(available, coll, db, query, max_results, outcome, fault) ==
    IF available /\ coll # None
    THEN vector_search(coll, db, query, max_results, outcome, fault)
    ELSE text_search(db, query, max_results, fault)

\* s[:n] of Python: the first n characters, or all but the last -n
Slice(s, n) ==
    IF n >= 0 THEN SubSeq(s, 1, Min(n, Len(s)))
    ELSE SubSeq(s, 1, Max(Len(s) + n, 0))

\* str(i) for the numbers of the items
ItemNumber(i) == <<<<"1">>, <<"2">>, <<"3">>, <<"4">>, <<"5">>, <<"6">>,
                   <<"7">>, <<"8">>, <<"9">>>>[i]

\* f"{i}. {content}" with the content cut to 200 characters plus "..."
ContextItem(i, content) ==
    ItemNumber(i) \o <<".", " ">>
        \o (IF Len(content) > 200 THEN Slice(content, 200) \o Chars["..."]
            ELSE content)

\* "\n".join(parts)
RECURSIVE JoinLines(_)
JoinLines(parts) ==
    IF parts = <<>> THEN <<>>
    ELSE IF Len(parts) = 1 THEN parts[1]
    ELSE parts[1] \o <<"\n">> \o JoinLines(Tail(parts))

\* the context block of build_context_prompt: the header line and the
\* numbered items
ContextBlock(relevant_context) ==
    JoinLines(<<Chars["Relevant information from previous conversations:"]>>
              \o [i \in 1..Len(relevant_context) |->
                     ContextItem(i, Chars[relevant_context[i].content])])

\* a block that is never cut
ContextTextUncut(relevant_context, max_context_length) ==
    ContextBlock(relevant_context)

\* the context portion of the prompt: the block, cut when it is longer than
\* max_context_length
ContextText(relevant_context, max_context_length) ==
    LET context_text == ContextBlock(relevant_context)
    IN  IF Len(context_text) > max_context_length
        THEN Slice(context_text, max_context_length) \o Chars["..."]
        ELSE context_text

\* the text before the context portion and the text after it
PromptHead == Chars["Context from previous conversations:"] \o <<"\n">>

PromptTail(query) ==
    <<"\n", "\n">> \o Chars["Current question: "] \o Chars[query]
        \o <<"\n", "\n">>
        \o Chars["Please answer the current question, using the context above if relevant:"]

\* a prompt built around whatever was retrieved, nothing included
build_context_prompt_always(query, relevant_context, max_context_length) ==
    PromptHead \o ContextText(relevant_context, max_context_length)
        \o PromptTail(query)

\* RAGService.build_context_prompt, from the context it retrieved: the
\* characters of the prompt
build_context_prompt(query, relevant_context, max_context_length) ==
    IF relevant_context = <<>> THEN Chars[query]
    ELSE PromptHead \o ContextText(relevant_context, max_context_length)
             \o PromptTail(query)

\* re.sub(r'\s+', ' ', response)
RECURSIVE CollapseWhitespace(_)
CollapseWhitespace(r) ==
    IF Len(r) < 2 THEN r
    ELSE IF r[1] = " " /\ r[2] = " " THEN CollapseWhitespace(Tail(r))
    ELSE <<r[1]>> \o CollapseWhitespace(Tail(r))

\* the canned answers that end with "."
EndsWithPeriod ==
    {"B comes after A in the alphabet.",
     "Gravity is the force that attracts objects toward each other, keeping us on Earth's surface.",
     "I don't have access to current weather data. Please check a weather service.",
     "I understand you're trying to communicate with me. I'm currently in basic mode with limited capabilities.",
     "I'm here to help! I can answer basic questions about math, geography, and general knowledge.",
     "I'm not sure how to respond to that.",
     "New Delhi is the capital of India.",
     "Paris is the capital of France.",
     "Photosynthesis is the process by which plants use sunlight, water, and carbon dioxide to create glucose and oxygen.",
     "Sorry, I encountered an error while processing your request.",
     "Sorry, the AI model is not available right now.",
     "That's an interesting question! Unfortunately, I'm running in basic mode and may not have the full answer.",
     "Tokyo is the capital of Japan."}

\* TextProcessor.clean_response: whitespace is collapsed and stripped, and
\* the sentences are joined again with a final "."
clean_response(response) ==
    LET r == Strip(CollapseWhitespace(response))
    IN  IF r = <<>> THEN <<>>
        ELSE IF r[Len(r)] \in EndsWithPeriod THEN r
        ELSE r \o <<".">>

\* the canned answers with "!", "great" or "wonderful" in them
HasPersonality ==
    {"Hello! I'm currently in basic mode. How can I assist you today?",
     "Hello! I'm running in basic mode. How can I help you?",
     "I'm doing well, thank you for asking!",
     "I'm here to help! I can answer basic questions about math, geography, and general knowledge.",
     "That's an interesting question! Unfortunately, I'm running in basic mode and may not have the full answer."}

\* TextProcessor.add_personality
add_personality(response, personality) ==
    IF personality = "friendly"
    THEN IF \E i \in 1..Len(response) : response[i] \in HasPersonality
         THEN response
         ELSE response \o <<" ", "smiling face">>
    ELSE IF personality = "professional"
    THEN IF response # <<>> /\ response[Len(response)] \in EndsWithPeriod \cup {"."}
         THEN response
         ELSE response \o <<".">>
    ELSE response

\* the parameters of ModelManager.generate_response after self
GenerateResponseParams == <<"prompt", "context">>

\* a call with so many positional arguments and these keyword arguments
\* binds to the parameters params; Python raises TypeError when it does not
Binds(params, positional, keywords) ==
    /\ positional <= Len(params)
    /\ keywords \subseteq {params[i] : i \in (positional + 1)..Len(params)}

(***************************************************************************)
(* State.                                                                  *)
(***************************************************************************)
VARIABLES
    clock,          \* what datetime.now() reads
    issued,         \* the uuid4 values already drawn
    chat_session,   \* SessionManager.current_session
    chat_sessions,  \* table chat_sessions
    messages,       \* table messages
    last,           \* the last call: [op, arg, ret, raised, fault, deleted]
    transformers_available,  \* TRANSFORMERS_AVAILABLE of ai_service.py
    available_models,        \* ModelManager.available_models
    current_model,           \* ModelManager.current_model
    chromadb_available,      \* CHROMADB_AVAILABLE of rag_service.py
    collection,              \* RAGService.collection: None, or <<docs>> with
                             \* docs the documents of the collection by id
    session_state            \* st.session_state: [chat_session, saved_chats]

models == <<transformers_available, available_models, current_model>>

rag == <<chromadb_available, collection>>

\* the operation of the last call comes first: two calls of different
\* operations differ whatever they returned
vars == <<last.op, clock, issued, chat_session, chat_sessions, messages, last,
          models, rag, session_state>>

db == [chat_sessions |-> chat_sessions, messages |-> messages]

\* op: the operation, arg: its argument, ret: the value it returned,
\* raised: an exception left the call, fault: a storage error occurred in it,
\* deleted: the rowcount of the call's DELETE FROM messages statement
CallDb(op, arg, ret, raised, fault, deleted) ==
    [op |-> op, arg |-> arg, ret |-> ret, raised |-> raised, fault |-> fault,
     deleted |-> deleted]

Call(op, arg, ret, raised, fault) == CallDb(op, arg, ret, raised, fault, 0)

WelcomeText == "Hello! I'm SmartBot Pro. How can I assist you today?"

\* SessionManager.create_new_session
create_new_session(session_id, now) ==
    add_message(ChatSession(session_id, now),
                Message(WelcomeText, "BOT", now), now)

\* the (content, message type) pairs add_message is called with
MessageInputs == {<<"What is 2+2?", "USER">>}

\* the (name, description) pairs a session is saved under
SaveInputs == {<<"chat A", "">>, <<"chat B", "notes">>}

Init ==
    /\ clock = 0
    /\ issued = {1}
    /\ chat_session = create_new_session(1, 0)
    /\ chat_sessions = {}
    /\ messages = <<>>
    /\ last = Call("init", 0, TRUE, FALSE, FALSE)
    /\ session_state = [chat_session |-> chat_session, saved_chats |-> <<>>]
    /\ transformers_available = FALSE
    /\ available_models = ModelManagerInit(FALSE, <<>>).available_models
    /\ current_model = ModelManagerInit(FALSE, <<>>).current_model
    /\ chromadb_available = FALSE
    /\ collection = None

\* time passes
Tick ==
    /\ clock < MaxTime
    /\ clock' = clock + 1
    /\ last' = Call("tick", 0, TRUE, FALSE, FALSE)
    /\ UNCHANGED <<issued, chat_session, chat_sessions, messages>>
    /\ UNCHANGED models
    /\ UNCHANGED rag
    /\ UNCHANGED session_state

\* the local wall clock is set back (datetime.now() is naive local time)
ClockSetBack ==
    /\ \E t \in Times : t < clock /\ clock' = t
    /\ last' = Call("clock_set_back", 0, TRUE, FALSE, FALSE)
    /\ UNCHANGED <<issued, chat_session, chat_sessions, messages>>
    /\ UNCHANGED models
    /\ UNCHANGED rag
    /\ UNCHANGED session_state

\* SessionManager.add_message
AddMessage ==
    /\ Len(chat_session.messages) < MaxMessages
    /\ \E in \in MessageInputs :
          chat_session' =
              add_message(chat_session, Message(in[1], in[2], clock), clock)
    /\ last' = Call("add_message", 0, TRUE, FALSE, FALSE)
    /\ UNCHANGED <<clock, issued, chat_sessions, messages>>
    /\ UNCHANGED models
    /\ UNCHANGED rag
    /\ session_state' = [session_state EXCEPT !.chat_session = chat_session']

\* SessionManager.clear_session
ClearSession ==
    /\ \E id \in SessionIds \ issued :
          /\ chat_session' = create_new_session(id, clock)
          /\ issued' = issued \cup {id}
    /\ last' = Call("clear_session", 0, TRUE, FALSE, FALSE)
    /\ UNCHANGED <<clock, chat_sessions, messages>>
    /\ UNCHANGED models
    /\ UNCHANGED rag
    /\ session_state' = [session_state EXCEPT !.chat_session = chat_session']

\* ChatDatabase.save_chat_session(current session, name, description)
SaveChatSession ==
    /\ \E in \in SaveInputs, failAt \in 0..SaveSteps(chat_session) :
          LET r == save_chat_session(db, chat_session, in[1], in[2], failAt)
          IN  /\ chat_sessions' = r.db.chat_sessions
              /\ messages' = r.db.messages
              /\ last' = CallDb("save", in, r.ret, FALSE, failAt # 0, r.deleted)
    /\ UNCHANGED <<clock, issued, chat_session>>
    /\ UNCHANGED models
    /\ UNCHANGED rag
    /\ UNCHANGED session_state

\* a load that replaces the session of the instance only
LoadSavedSessionInInstance ==
    /\ \E id \in SessionIds, fault \in BOOLEAN :
          \E r \in load_chat_session(db, id, fault) :
              /\ chat_session' = IF r # None THEN r[1] ELSE chat_session
              /\ last' = Call("load_saved_session", id, r # None, FALSE, fault)
    /\ UNCHANGED <<clock, issued, chat_sessions, messages>>
    /\ UNCHANGED models
    /\ UNCHANGED rag
    /\ UNCHANGED session_state

\* SessionManager.load_saved_session(session_id)
LoadSavedSession ==
    /\ \E id \in SessionIds, fault \in BOOLEAN :
          \E r \in load_chat_session(db, id, fault) :
              /\ chat_session' = IF r # None THEN r[1] ELSE chat_session
              /\ last' = Call("load_saved_session", id, r # None, FALSE, fault)
    /\ UNCHANGED <<clock, issued, chat_sessions, messages>>
    /\ UNCHANGED models
    /\ UNCHANGED rag
    /\ session_state' = [session_state EXCEPT !.chat_session = chat_session']

\* ChatDatabase.delete_chat_session(session_id)
DeleteChatSession ==
    /\ \E id \in SessionIds, fault \in BOOLEAN :
          LET r == delete_chat_session(db, id, fault)
          IN  /\ chat_sessions' = r.db.chat_sessions
              /\ messages' = r.db.messages
              /\ last' = CallDb("delete", id, r.ret, FALSE, fault, r.deleted)
    /\ UNCHANGED <<clock, issued, chat_session>>
    /\ UNCHANGED models
    /\ UNCHANGED rag
    /\ UNCHANGED session_state

\* ChatDatabase.__init__ / _init_database: the tables are created if they
\* do not exist; no handler surrounds the statements
ChatDatabaseInit ==
    /\ \E fault \in BOOLEAN :
          last' = Call("init_database", 0, ~fault, fault, fault)
    /\ UNCHANGED <<clock, issued, chat_session, chat_sessions, messages>>
    /\ UNCHANGED models
    /\ UNCHANGED rag
    /\ UNCHANGED session_state

\* ChatDatabase.load_chat_session(session_id)
LoadChatSession ==
    /\ \E id \in SessionIds, fault \in BOOLEAN :
          \E r \in load_chat_session(db, id, fault) :
              last' = Call("load", id, r, FALSE, fault)
    /\ UNCHANGED <<clock, issued, chat_session, chat_sessions, messages>>
    /\ UNCHANGED models
    /\ UNCHANGED rag
    /\ UNCHANGED session_state

\* ChatDatabase.get_all_chat_sessions()
GetAllChatSessions ==
    /\ \E fault \in BOOLEAN :
          \E r \in get_all_chat_sessions(db, fault) :
              last' = Call("get_all", 0, r, FALSE, fault)
    /\ UNCHANGED <<clock, issued, chat_session, chat_sessions, messages>>
    /\ UNCHANGED models
    /\ UNCHANGED rag
    /\ UNCHANGED session_state

\* the query texts searched for
Queries == {"2+2", "hello", "_s", "nothing"}

\* the limits searched with
Limits == {1, 50}

\* ChatDatabase.search_messages(query, limit)
SearchMessages ==
    /\ \E query \in Queries, limit \in Limits, fault \in BOOLEAN :
          \E r \in search_messages(db, query, limit, fault) :
              last' = Call("search", <<query, limit>>, r, FALSE, fault)
    /\ UNCHANGED <<clock, issued, chat_session, chat_sessions, messages>>
    /\ UNCHANGED models
    /\ UNCHANGED rag
    /\ UNCHANGED session_state

\* ChatDatabase.get_chat_statistics()
GetChatStatistics ==
    /\ \E fault \in BOOLEAN :
          last' = Call("statistics", 0, get_chat_statistics(db, fault),
                       FALSE, fault)
    /\ UNCHANGED <<clock, issued, chat_session, chat_sessions, messages>>
    /\ UNCHANGED models
    /\ UNCHANGED rag
    /\ UNCHANGED session_state

\* the store under saves and deletes of sessions that grow while time passes
\* the service of the i-th configured model once its pipeline attribute
\* has been assigned p
ServiceWith(i, p) ==
    [HuggingFaceModelService(ModelId[i], "loaded") EXCEPT !.pipeline = p]

\* the services a ModelManager can hold: the fallback, or the service of a
\* configured model with or without a pipeline
Services ==
    {FallbackModelService, ServiceWith(1, "None"), ServiceWith(1, "pipeline"),
     ServiceWith(Len(ModelKeys), "pipeline")}

\* the registries a ModelManager can hold: none or all of the configured
\* models, each with a pipeline
Registries ==
    {[k \in K |-> ServiceWith(KeyIndex(k), "pipeline")] :
        K \in {{}, {ModelKeys[i] : i \in 1..Len(ModelKeys)}}}

\* the states of a ModelManager: a registry of services with a pipeline,
\* and any service as the current one
InitModels ==
    /\ clock = 0
    /\ issued = {1}
    /\ chat_session = create_new_session(1, 0)
    /\ chat_sessions = {}
    /\ messages = <<>>
    /\ last = Call("init", 0, TRUE, FALSE, FALSE)
    /\ session_state = [chat_session |-> chat_session, saved_chats |-> <<>>]
    /\ transformers_available \in BOOLEAN
    /\ available_models \in Registries
    /\ current_model \in Services
    /\ chromadb_available = FALSE
    /\ collection = None

\* ModelManager()
ModelManagerNew ==
    /\ \E outcomes \in [1..Len(ModelKeys) -> LoadOutcomes] :
          LET m == ModelManagerInit(transformers_available, outcomes)
          IN  /\ available_models' = m.available_models
              /\ current_model' = m.current_model
              /\ last' = Call("model_manager", outcomes, TRUE, FALSE, FALSE)
    /\ UNCHANGED <<clock, issued, chat_session, chat_sessions, messages,
                   transformers_available>>
    /\ UNCHANGED rag
    /\ UNCHANGED session_state

\* an unknown name makes the fallback current
set_model_resets(registry, current, model_name) ==
    IF model_name \in DOMAIN registry
    THEN [current_model |-> registry[model_name], ret |-> TRUE]
    ELSE IF model_name = "fallback"
    THEN [current_model |-> FallbackModelService, ret |-> TRUE]
    ELSE [current_model |-> FallbackModelService, ret |-> FALSE]

\* ModelManager.set_model(model_name) on a manager with this registry and
\* this current model
set_model(registry, current, model_name) ==
    IF model_name \in DOMAIN registry
    THEN [current_model |-> registry[model_name], ret |-> TRUE]
    ELSE IF model_name = "fallback"
    THEN [current_model |-> FallbackModelService, ret |-> TRUE]
    ELSE [current_model |-> current, ret |-> FALSE]

\* the names set_model is called with
ModelNames ==
    {ModelKeys[i] : i \in 1..Len(ModelKeys)}
        \cup {"fallback", "nonexistent-model"}

\* ModelManager.set_model(model_name)
SetModel ==
    /\ \E model_name \in ModelNames :
          LET r == set_model(available_models, current_model, model_name)
          IN  /\ current_model' = r.current_model
              /\ last' = Call("set_model", model_name, r.ret, FALSE, FALSE)
    /\ UNCHANGED <<clock, issued, chat_session, chat_sessions, messages,
                   transformers_available, available_models>>
    /\ UNCHANGED rag
    /\ UNCHANGED session_state

\* the prompts generate_response is called with
Prompts == {"What is 2+2?", "help me", "Why?", "ok", "2+2",
            "how are you after all"}

\* the contexts generate_response is called with
Contexts == {"", "2+2"}

\* the pipeline is called only by a service that is available
PipelineOutcomes(service, transformers) ==
    IF service.kind = "HuggingFaceModelService"
          /\ is_available(service, transformers)
    THEN GenOutcomes
    ELSE {[kind |-> "not called", text |-> <<>>]}

\* a call the current service could not answer makes the fallback current
GenerateResponseFailsBack ==
    /\ \E prompt \in Prompts, context \in Contexts,
            out \in PipelineOutcomes(current_model, transformers_available) :
          LET r == generate_response(current_model, transformers_available,
                                     prompt, context, out)
          IN  /\ last' = Call("generate_response", prompt, r.ret, r.raised,
                              out.kind \in {"raises", "malformed"})
              /\ current_model' =
                     IF out.kind \in {"raises", "malformed"}
                           \/ ~is_available(current_model,
                                            transformers_available)
                     THEN FallbackModelService
                     ELSE current_model
    /\ UNCHANGED <<clock, issued, chat_session, chat_sessions, messages,
                   transformers_available, available_models>>
    /\ UNCHANGED rag
    /\ UNCHANGED session_state

\* ModelManager.generate_response(prompt, context)
GenerateResponse ==
    /\ \E prompt \in Prompts, context \in Contexts,
            out \in PipelineOutcomes(current_model, transformers_available) :
          LET r == generate_response(current_model, transformers_available,
                                     prompt, context, out)
          IN  last' = Call("generate_response", prompt, r.ret, r.raised,
                           out.kind \in {"raises", "malformed"})
    /\ UNCHANGED <<clock, issued, chat_session, chat_sessions, messages>>
    /\ UNCHANGED models
    /\ UNCHANGED rag
    /\ UNCHANGED session_state

\* ModelManager.get_available_models(): the registered keys in the order
\* they were registered, then "fallback"
get_available_models(registry) ==
    LET keys == {i \in 1..Len(ModelKeys) : ModelKeys[i] \in DOMAIN registry}
        RECURSIVE Listed(_)
        Listed(n) ==
            IF n = 0 THEN <<>>
            ELSE IF n \in keys THEN Listed(n - 1) \o <<ModelKeys[n]>>
            ELSE Listed(n - 1)
    IN  Listed(Len(ModelKeys)) \o <<"fallback">>

\* ModelManager.get_model_status()
get_model_status(registry, current, transformers) ==
    [current_model |-> current.kind,
     transformers_available |-> transformers,
     available_models |-> get_available_models(registry),
     model_count |-> Cardinality(DOMAIN registry)]

GetAvailableModels ==
    /\ last' = Call("get_available_models", 0,
                    get_available_models(available_models), FALSE, FALSE)
    /\ UNCHANGED <<clock, issued, chat_session, chat_sessions, messages>>
    /\ UNCHANGED models
    /\ UNCHANGED rag
    /\ UNCHANGED session_state

GetModelStatus ==
    /\ last' = Call("get_model_status", 0,
                    get_model_status(available_models, current_model,
                                     transformers_available), FALSE, FALSE)
    /\ UNCHANGED <<clock, issued, chat_session, chat_sessions, messages>>
    /\ UNCHANGED models
    /\ UNCHANGED rag
    /\ UNCHANGED session_state

\* ChatInterface._process_user_input(user_input)
ProcessUserInput ==
    /\ Len(chat_session.messages) < MaxMessages
    /\ \E user_input \in Prompts, outcome \in QueryOutcomes,
            fault \in BOOLEAN :
          \E relevant \in get_relevant_context(chromadb_available, collection,
                                               db, user_input, 3, outcome,
                                               fault),
             out \in PipelineOutcomes(current_model,
                                      transformers_available) :
              LET with_user ==
                      add_message(chat_session,
                                  Message(user_input, "USER", clock), clock)
                  rag_context ==
                      build_context_prompt(user_input, relevant, 1000)
              IN  IF ~Binds(GenerateResponseParams, 2, {"use_rag"})
                  THEN /\ chat_session' = with_user
                       /\ last' = Call("process_user_input", user_input,
                                       FALSE, TRUE, fault)
                  ELSE LET r == generate_response(current_model,
                                    transformers_available, user_input,
                                    rag_context, out)
                           response ==
                               add_personality(clean_response(r.ret),
                                               "friendly")
                       IN  /\ chat_session' =
                                  add_message(with_user,
                                      Message(response, "BOT", clock), clock)
                           /\ last' = Call("process_user_input", user_input,
                                           TRUE, r.raised, fault)
    /\ UNCHANGED <<clock, issued, chat_sessions, messages>>
    /\ UNCHANGED models
    /\ UNCHANGED rag
    /\ session_state' = [session_state EXCEPT !.chat_session = chat_session']

\* the (content, message type) pairs of the messages of stored sessions:
\* a long content, and a content of five characters followed by six spaces
StoredInputs == MessageInputs \cup {<<"hello      ", "USER">>}

\* the session with this id after these messages were added to it, one at
\* each reading of the clock
SessionOf(session_id, extras) ==
    LET RECURSIVE Build(_)
        Build(k) ==
            IF k = 0 THEN create_new_session(session_id, 0)
            ELSE add_message(Build(k - 1),
                             Message(extras[k][1], extras[k][2],
                                     Min(k, MaxTime)),
                             Min(k, MaxTime))
    IN  Build(Len(extras))

\* the ids sessions are saved under, and the messages that were added to
\* each of these sessions
StoredChoices ==
    {[ids |-> ids, extras |-> e] :
        ids \in SUBSET SessionIds,
        e \in UNION {[1..n -> StoredInputs] : n \in 0..(MaxMessages - 1)}}

\* the store after save_chat_session of the chosen sessions
RECURSIVE SavedStore(_, _)
SavedStore(choice, n) ==
    IF n = 0 THEN [chat_sessions |-> {}, messages |-> <<>>]
    ELSE IF n \notin choice.ids THEN SavedStore(choice, n - 1)
    ELSE save_chat_session(SavedStore(choice, n - 1),
                           SessionOf(n, choice.extras), "chat A", "", 0).db

\* a RAGService over a store with saved sessions: no vector backend, a
\* backend whose initialisation failed, or a backend with a collection; the
\* current session is the one saved under its id, or a new one
InitRAG ==
    /\ clock = MaxTime
    /\ \E choice \in StoredChoices :
          /\ issued = {1} \cup choice.ids
          /\ chat_session = IF 1 \in choice.ids
                            THEN SessionOf(1, choice.extras)
                            ELSE create_new_session(1, 0)
          /\ chat_sessions = SavedStore(choice, NumSessionIds).chat_sessions
          /\ messages = SavedStore(choice, NumSessionIds).messages
    /\ last = Call("init", 0, TRUE, FALSE, FALSE)
    /\ session_state = [chat_session |-> chat_session, saved_chats |-> <<>>]
    /\ transformers_available = FALSE
    /\ available_models = ModelManagerInit(FALSE, <<>>).available_models
    /\ current_model = ModelManagerInit(FALSE, <<>>).current_model
    /\ chromadb_available \in BOOLEAN
    /\ collection \in IF chromadb_available THEN {None, <<{}>>} ELSE {None}

\* RAGService.index_chat_session(session_id); held is the number of
\* documents of the session in the collection before the call
IndexChatSession ==
    /\ \E session_id \in SessionIds, outcome \in IndexOutcomes :
          \E r \in index_chat_session(chromadb_available, collection, db,
                                      session_id, outcome) :
              /\ collection' = r.collection
              /\ last' = Call("index_chat_session", session_id,
                              [ret |-> r.ret, loaded |-> r.loaded,
                               held |-> IF collection = None THEN 0
                                        ELSE Cardinality(
                                               {d \in collection[1] :
                                                  d.id[1] = session_id})],
                              FALSE, outcome # "ok")
    /\ UNCHANGED <<clock, issued, chat_session, chat_sessions, messages,
                   chromadb_available>>
    /\ UNCHANGED models
    /\ UNCHANGED session_state

\* what goes wrong for each session in one index_all_sessions call: nothing,
\* or something for one of the sessions
IndexAllOutcomes ==
    {o \in [SessionIds -> IndexOutcomes] :
        \A a, b \in SessionIds : o[a] # "ok" /\ o[b] # "ok" => a = b}

\* RAGService.index_all_sessions()
IndexAllSessions ==
    /\ \E fault \in BOOLEAN :
       \E outcomes \in IF fault THEN {[s \in SessionIds |-> "ok"]}
                       ELSE IndexAllOutcomes :
          \E r \in index_all_sessions(chromadb_available, collection, db,
                                      fault, outcomes) :
              /\ collection' = r.collection
              /\ last' = Call("index_all_sessions", outcomes,
                              r.indexed_count, FALSE, fault)
    /\ UNCHANGED <<clock, issued, chat_session, chat_sessions, messages,
                   chromadb_available>>
    /\ UNCHANGED models
    /\ UNCHANGED session_state

\* RAGService.remove_session_from_index(session_id); held is the number of
\* documents of the session in the collection before the call
RemoveSessionFromIndex ==
    /\ \E session_id \in SessionIds, outcome \in RemoveOutcomes :
          LET r == remove_session_from_index(chromadb_available, collection,
                                             session_id, outcome)
          IN  /\ collection' = r.collection
              /\ last' = Call("remove_session_from_index", session_id,
                              [ret |-> r.ret,
                               held |-> IF collection = None THEN 0
                                        ELSE Cardinality(
                                               {d \in collection[1] :
                                                  d.id[1] = session_id})],
                              FALSE, outcome # "ok")
    /\ UNCHANGED <<clock, issued, chat_session, chat_sessions, messages,
                   chromadb_available>>
    /\ UNCHANGED models
    /\ UNCHANGED session_state

\* the max_results get_relevant_context is called with
MaxResultsInputs == {1}

\* RAGService.get_relevant_context(query, max_results); the query of the
\* collection can raise where there is a collection, and the store can fail
\* where the store is searched
GetRelevantContext ==
    /\ \E query \in Queries, max_results \in MaxResultsInputs :
       \E outcome \in IF chromadb_available /\ collection # None
                      THEN QueryOutcomes ELSE {"ok"} :
       \E fault \in IF chromadb_available /\ collection # None
                       /\ outcome = "ok"
                    THEN {FALSE} ELSE BOOLEAN :
          \E r \in get_relevant_context(chromadb_available, collection, db,
                                        query, max_results, outcome, fault) :
              last' = Call("get_relevant_context",
                           [query |-> query, max_results |-> max_results,
                            storage_error |-> fault],
                           r, FALSE, outcome # "ok")
    /\ UNCHANGED <<clock, issued, chat_session, chat_sessions, messages>>
    /\ UNCHANGED models
    /\ UNCHANGED rag
    /\ UNCHANGED session_state

\* RAGService.build_context_prompt(query), with the max_context_length it
\* has when the caller gives none
BuildContextPrompt ==
    /\ \E query \in Queries :
       \E outcome \in IF chromadb_available /\ collection # None
                      THEN QueryOutcomes ELSE {"ok"} :
       \E fault \in IF chromadb_available /\ collection # None
                       /\ outcome = "ok"
                    THEN {FALSE} ELSE BOOLEAN :
          \E relevant \in get_relevant_context(chromadb_available, collection,
                                               db, query, 3, outcome, fault) :
              last' = Call("build_context_prompt",
                           [query |-> query, relevant_context |-> relevant,
                            max_context_length |-> 1000],
                           build_context_prompt(query, relevant, 1000),
                           FALSE, fault \/ outcome # "ok")
    /\ UNCHANGED <<clock, issued, chat_session, chat_sessions, messages>>
    /\ UNCHANGED models
    /\ UNCHANGED rag
    /\ UNCHANGED session_state

\* the contents of the matches a retrieval hands to build_context_prompt
ContextContents == {"hello      ", LongContent}

\* the lists of matches retrieved with max_results=3
RetrievedContexts ==
    UNION {[1..n -> {[content |-> c, relevance_score |-> "0.5",
                      source |-> "text_search"] : c \in ContextContents}] :
             n \in 0..3}

\* the max_context_length build_context_prompt is given
ContextLengths == {0, 50, 260, 1000}

\* RAGService.build_context_prompt(query, max_context_length) on what its
\* retrieval returned
BuildContextPromptOf ==
    /\ \E query \in {"hello", "nothing"},
            relevant \in RetrievedContexts,
            max_context_length \in ContextLengths :
          last' = Call("build_context_prompt",
                       [query |-> query, relevant_context |-> relevant,
                        max_context_length |-> max_context_length],
                       build_context_prompt(query, relevant,
                                            max_context_length),
                       FALSE, FALSE)
    /\ UNCHANGED <<clock, issued, chat_session, chat_sessions, messages>>
    /\ UNCHANGED models
    /\ UNCHANGED rag
    /\ UNCHANGED session_state

\* sessions written and saved as time passes
Next ==
    \/ Tick
    \/ AddMessage
    \/ ClearSession
    \/ SaveChatSession

Spec == Init /\ [][Next]_vars

\* sessions written, saved and deleted at one reading of the clock
NextDelete ==
    \/ AddMessage
    \/ ClearSession
    \/ SaveChatSession
    \/ DeleteChatSession

SpecDelete == Init /\ [][NextDelete]_vars

\* a SessionManager constructed over an empty store: the vector backend is
\* present or not, and its collection was opened or not
InitManager ==
    /\ clock = 0
    /\ issued = {1}
    /\ chat_session = create_new_session(1, 0)
    /\ chat_sessions = {}
    /\ messages = <<>>
    /\ last = Call("init", 0, TRUE, FALSE, FALSE)
    /\ session_state = [chat_session |-> chat_session, saved_chats |-> <<>>]
    /\ transformers_available = FALSE
    /\ available_models = ModelManagerInit(FALSE, <<>>).available_models
    /\ current_model = ModelManagerInit(FALSE, <<>>).current_model
    /\ chromadb_available \in BOOLEAN
    /\ collection \in IF chromadb_available THEN {None, <<{}>>} ELSE {None}

\* SessionManager.save_current_session: failAt is the step of the store's
\* save that raises (0: none), outcome what happens in index_chat_session,
\* listing_error whether the refreshing get_all_chat_sessions meets a
\* storage error; the last two matter only after a successful save
SaveCurrentSession ==
    /\ \E in \in SaveInputs, failAt \in 0..SaveSteps(chat_session),
          outcome \in IndexOutcomes, listing_error \in BOOLEAN :
          /\ failAt # 0 => outcome = "ok" /\ ~listing_error
          /\ IF chat_session.messages = <<>>
             THEN /\ failAt = 0 /\ outcome = "ok" /\ ~listing_error
                  /\ UNCHANGED <<chat_sessions, messages, collection,
                                 session_state>>
                  /\ last' = Call("save_current_session",
                                  [name |-> in[1], description |-> in[2],
                                   index |-> outcome,
                                   listing_error |-> listing_error],
                                  FALSE, FALSE, FALSE)
             ELSE LET saved == save_chat_session(db, chat_session, in[1],
                                                 in[2], failAt)
                      success == saved.ret
                  IN  /\ chat_sessions' = saved.db.chat_sessions
                      /\ messages' = saved.db.messages
                      /\ last' = Call("save_current_session",
                                      [name |-> in[1], description |-> in[2],
                                       index |-> outcome,
                                       listing_error |-> listing_error],
                                      success, FALSE,
                                      failAt # 0 \/ outcome # "ok"
                                          \/ listing_error)
                      /\ IF success
                         THEN /\ \E r \in index_chat_session(
                                             chromadb_available, collection,
                                             saved.db,
                                             chat_session.session_id,
                                             outcome) :
                                     collection' = r.collection
                              /\ \E listed \in get_all_chat_sessions(
                                                  saved.db, listing_error) :
                                     session_state' =
                                         [session_state EXCEPT
                                             !.saved_chats = listed]
                         ELSE UNCHANGED <<collection, session_state>>
    /\ UNCHANGED <<clock, issued, chat_session, chromadb_available>>
    /\ UNCHANGED models

\* SessionManager.delete_saved_session: fault is a storage error in the
\* store's delete, outcome what happens in remove_session_from_index,
\* listing_error as above
DeleteSavedSession ==
    /\ \E session_id \in SessionIds, fault \in BOOLEAN,
          outcome \in RemoveOutcomes, listing_error \in BOOLEAN :
          LET deleted == delete_chat_session(db, session_id, fault)
              success == deleted.ret
              removed == remove_session_from_index(chromadb_available,
                                                   collection, session_id,
                                                   outcome)
          IN  /\ ~success => outcome = "ok" /\ ~listing_error
              /\ chat_sessions' = deleted.db.chat_sessions
              /\ messages' = deleted.db.messages
              /\ last' = Call("delete_saved_session",
                              [session_id |-> session_id,
                               remove |-> outcome,
                               listing_error |-> listing_error],
                              success, FALSE,
                              fault \/ outcome # "ok" \/ listing_error)
              /\ IF success
                 THEN /\ collection' = removed.collection
                      /\ \E listed \in get_all_chat_sessions(
                                          deleted.db, listing_error) :
                             session_state' =
                                 [session_state EXCEPT
                                     !.saved_chats = listed]
                 ELSE UNCHANGED <<collection, session_state>>
    /\ UNCHANGED <<clock, issued, chat_session, chromadb_available>>
    /\ UNCHANGED models

\* sessions written, saved and deleted through the SessionManager
NextManager ==
    \/ AddMessage
    \/ ClearSession
    \/ SaveCurrentSession
    \/ DeleteSavedSession

SpecManager == InitManager /\ [][NextManager]_vars

\* the ChatSession values handed to the store: any id, any theme, one of two
\* model names, any two readings of the clock, with or without a message
ChatSessionValues ==
    {[session_id |-> id, messages |-> ms, created_at |-> c, updated_at |-> u,
      theme |-> t, model_name |-> m] :
        id \in SessionIds, c \in Times, u \in Times, t \in DOMAIN ChatTheme,
        m \in {"flan-t5-base", "dialogpt"},
        ms \in {<<>>, <<Message(WelcomeText, "BOT", 0)>>}}

\* an empty store and a ChatSession value to save
InitRoundTrip ==
    /\ clock = 0
    /\ chat_session \in ChatSessionValues
    /\ issued = {chat_session.session_id}
    /\ chat_sessions = {}
    /\ messages = <<>>
    /\ last = Call("init", 0, TRUE, FALSE, FALSE)
    /\ session_state = [chat_session |-> chat_session, saved_chats |-> <<>>]
    /\ transformers_available = FALSE
    /\ available_models = ModelManagerInit(FALSE, <<>>).available_models
    /\ current_model = ModelManagerInit(FALSE, <<>>).current_model
    /\ chromadb_available = FALSE
    /\ collection = None

\* a ChatSession value saved and loaded again
NextRoundTrip ==
    \/ SaveChatSession
    \/ LoadChatSession

SpecRoundTrip == InitRoundTrip /\ [][NextRoundTrip]_vars

\* st.session_state of a browser session that has just begun: no key is set
EmptySessionState == [key \in {} |-> 0]

\* a constructor that puts a new session in place whatever the state holds
initialize_session_anew(state, new_session, listed) ==
    [chat_session |-> new_session,
     saved_chats |-> IF "saved_chats" \in DOMAIN state
                     THEN state["saved_chats"] ELSE listed]

\* SessionManager._initialize_session on the st.session_state of the run:
\* a key that is present is left as it is; new_session is what
\* create_new_session returns and listed what get_all_chat_sessions
\* returns, each used only when its key is absent
initialize_session(state, new_session, listed) ==
    LET s1 == IF "chat_session" \in DOMAIN state THEN state
              ELSE ("chat_session" :> new_session) @@ state
        s2 == IF "saved_chats" \in DOMAIN s1 THEN s1
              ELSE ("saved_chats" :> listed) @@ s1
    IN  [chat_session |-> s2["chat_session"],
         saved_chats |-> s2["saved_chats"]]

\* main() constructs SessionManager() at the start of a script run.
\* new_browser_session: the run is the first of a browser session, whose
\* st.session_state is empty, otherwise it is a rerun over the present
\* state; init_error: ChatDatabase() or RAGService() raises, and with it
\* the constructor, before _initialize_session; open_error: the vector
\* database cannot be opened; listing_error: get_all_chat_sessions meets a
\* storage error.  The collection that is opened is the persisted one; the
\* documents are kept with the handle, so a collection opened after an
\* opening that failed is taken to be empty
SessionManagerNew ==
    /\ \E new_browser_session \in BOOLEAN, init_error \in BOOLEAN,
          open_error \in BOOLEAN, listing_error \in BOOLEAN :
          LET state == IF new_browser_session THEN EmptySessionState
                       ELSE session_state
              creates == "chat_session" \notin DOMAIN state
              lists == "saved_chats" \notin DOMAIN state
              arg == [new_browser_session |-> new_browser_session,
                      open_error |-> open_error,
                      listing_error |-> listing_error]
          IN  /\ open_error => chromadb_available /\ ~init_error
              /\ listing_error => lists /\ ~init_error
              /\ IF init_error
                 THEN /\ last' = Call("SessionManager", arg, FALSE, TRUE,
                                      TRUE)
                      /\ UNCHANGED <<issued, chat_session, collection,
                                     session_state>>
                 ELSE \E id \in IF creates THEN SessionIds \ issued ELSE {0} :
                      \E listed \in get_all_chat_sessions(db, listing_error) :
                          /\ session_state' =
                                 initialize_session(
                                     state, create_new_session(id, clock),
                                     listed)
                          /\ chat_session' = session_state'.chat_session
                          /\ issued' = IF creates THEN issued \cup {id}
                                       ELSE issued
                          /\ collection' =
                                 IF ~chromadb_available \/ open_error
                                 THEN None
                                 ELSE IF collection = None THEN <<{}>>
                                 ELSE collection
                          /\ last' = Call("SessionManager", arg, TRUE, FALSE,
                                          open_error \/ listing_error)
    /\ UNCHANGED <<clock, chat_sessions, messages, chromadb_available>>
    /\ UNCHANGED models

\* script runs of one browser session after another over a store that holds
\* saved sessions
NextRerun ==
    \/ AddMessage
    \/ ClearSession
    \/ SessionManagerNew

SpecRerun == InitRAG /\ [][NextRerun]_vars

\* saved sessions loaded in place of the session that is written
NextLoad ==
    \/ AddMessage
    \/ ClearSession
    \/ LoadSavedSession

SpecLoad == InitRAG /\ [][NextLoad]_vars

\* the same with stored sessions loaded back and a wall clock that can be
\* set back
NextWallClock ==
    \/ Tick
    \/ ClockSetBack
    \/ AddMessage
    \/ ClearSession
    \/ SaveChatSession
    \/ LoadSavedSession
    \/ DeleteChatSession

SpecWallClock == Init /\ [][NextWallClock]_vars

\* every operation of ChatDatabase, the opening of the store included
NextDatabase ==
    \/ Tick
    \/ AddMessage
    \/ ClearSession
    \/ ChatDatabaseInit
    \/ SaveChatSession
    \/ LoadChatSession
    \/ GetAllChatSessions
    \/ DeleteChatSession
    \/ SearchMessages
    \/ GetChatStatistics

SpecDatabase == Init /\ [][NextDatabase]_vars

\* the model manager alone
NextModels ==
    \/ ModelManagerNew
    \/ SetModel
    \/ GenerateResponse

SpecModels == InitModels /\ [][NextModels]_vars

\* saved sessions indexed one by one and removed from the index
NextIndex ==
    \/ IndexChatSession
    \/ RemoveSessionFromIndex

SpecIndex == InitRAG /\ [][NextIndex]_vars

\* saved sessions indexed all at once, again and again
NextIndexAll ==
    \/ IndexAllSessions

SpecIndexAll == InitRAG /\ [][NextIndexAll]_vars

\* prompts built over saved sessions
NextPrompt ==
    \/ BuildContextPrompt

SpecPrompt == InitRAG /\ [][NextPrompt]_vars

\* prompts built from retrieved matches of every length
NextPromptText ==
    \/ BuildContextPromptOf

SpecPromptText == Init /\ [][NextPromptText]_vars

\* saved sessions indexed and searched
NextRetrieve ==
    \/ IndexChatSession
    \/ GetRelevantContext

SpecRetrieve == InitRAG /\ [][NextRetrieve]_vars

\* a model manager in use after its initialisation
NextModelUse ==
    \/ SetModel
    \/ GenerateResponse
    \/ GetAvailableModels
    \/ GetModelStatus

SpecModelUse == InitModels /\ [][NextModelUse]_vars

\* the chat page with every configured model registered: a generative
\* model or the fallback is current
InitUI ==
    /\ clock = 0
    /\ issued = {1}
    /\ chat_session = create_new_session(1, 0)
    /\ chat_sessions = {}
    /\ messages = <<>>
    /\ last = Call("init", 0, TRUE, FALSE, FALSE)
    /\ session_state = [chat_session |-> chat_session, saved_chats |-> <<>>]
    /\ transformers_available = TRUE
    /\ available_models \in Registries /\ DOMAIN available_models # {}
    /\ current_model \in {FallbackModelService, ServiceWith(1, "pipeline")}
    /\ chromadb_available \in BOOLEAN
    /\ collection = IF chromadb_available THEN <<{}>> ELSE None

\* submissions, with sessions saved for the retrieval
NextUI ==
    \/ ClearSession
    \/ SaveChatSession
    \/ ProcessUserInput

SpecUI == InitUI /\ [][NextUI]_vars

(***************************************************************************)
(* Properties of the relational store.                                     *)
(***************************************************************************)
SessionRowsOf(table, session_id) == {r \in table : r.id = session_id}

\* the messages of two lists agree position by position
SameMessages(a, b) ==
    /\ Len(a) = Len(b)
    /\ \A i \in 1..Len(a) :
          /\ a[i].content = b[i].content
          /\ a[i].message_type = b[i].message_type
          /\ a[i].timestamp = b[i].timestamp

\* the message rows stored for the session are its messages, in list order
RowsAreMessagesOf(rows, session) ==
    LET mine == SelectMessages(rows, session.session_id)
    IN  /\ Len(mine) = Len(session.messages)
        /\ \A i \in 1..Len(mine) :
              /\ mine[i].content = session.messages[i].content
              /\ mine[i].message_type =
                     MessageType[session.messages[i].message_type]
              /\ mine[i].timestamp = isoformat(session.messages[i].timestamp)

\* every row of the other sessions is what it was
OthersUnchanged(session_id) ==
    /\ \A o \in SessionIds \ {session_id} :
          /\ SessionRowsOf(chat_sessions', o) = SessionRowsOf(chat_sessions, o)
          /\ SelectMessages(messages', o) = SelectMessages(messages, o)

\* C1: a successful save followed by a load of the same id (no storage
\* error in the load) returns a session with the saved messages: as many,
\* in the list order of the saved session, each with the same content,
\* message type and timestamp.
C1_RoundTripKeepsOrder ==
    [][(last'.op = "save" /\ last'.ret) =>
          \A r \in load_chat_session(db', chat_session.session_id, FALSE) :
              /\ r # None
              /\ SameMessages(r[1].messages, chat_session.messages)]_vars

\* C3: a save that fails, at whichever step, returns false and leaves every
\* session row and every message row as it was before the call.
C3_SaveAllOrNothing ==
    [][(last'.op = "save" /\ last'.fault) =>
          /\ last'.ret = FALSE
          /\ chat_sessions' = chat_sessions
          /\ messages' = messages]_vars

\* a failed save of a session that is stored with fewer messages than it
\* has now: a step that ran before the error would have changed the store
C3_Witness ==
    /\ last.op = "save" /\ last.fault /\ ~last.ret
    /\ \E r \in SessionRowsOf(chat_sessions, chat_session.session_id) :
          r.message_count < Len(chat_session.messages)

\* C4: after a successful save the store holds exactly one session row for
\* the id, with the name and description given to that save, and the message
\* rows of the id are exactly the messages of the session, none from
\* earlier saves.
C4_SaveReplaces ==
    (last.op = "save" /\ last.ret) =>
        /\ Cardinality(SessionRowsOf(chat_sessions,
                                     chat_session.session_id)) = 1
        /\ \A r \in SessionRowsOf(chat_sessions, chat_session.session_id) :
              r.name = last.arg[1] /\ r.description = last.arg[2]
        /\ RowsAreMessagesOf(messages, chat_session)

\* a successful save, under the second name, of a session that had grown
\* since an earlier save: the save removed the rows of that earlier save
C4_Witness ==
    /\ last.op = "save" /\ last.ret
    /\ last.arg = <<"chat B", "notes">>
    /\ last.deleted > 0
    /\ last.deleted < Len(chat_session.messages)

\* C5: the message_count a successful save writes is the number of messages
\* of the session at that save, and add_message on the in-memory session
\* changes neither the stored message_count nor the stored message rows.
C5_MessageCountIsSnapshot ==
    [][/\ (last'.op = "save" /\ last'.ret) =>
              \A r \in SessionRowsOf(chat_sessions',
                                     chat_session.session_id) :
                  r.message_count = Len(chat_session.messages)
       /\ (last'.op = "add_message") =>
              /\ chat_sessions' = chat_sessions
              /\ messages' = messages]_vars

\* a message was appended to a session that is stored: the stored count is
\* now behind the in-memory list
C5_Witness ==
    /\ last.op = "add_message"
    /\ \E r \in SessionRowsOf(chat_sessions, chat_session.session_id) :
          /\ r.message_count > 0
          /\ r.message_count < Len(chat_session.messages)

\* C6: after a successful delete of an id no message row of the id remains,
\* load of the id returns None, and the rows of every other session are
\* unchanged.
C6_DeleteRemovesSession ==
    [][(last'.op = "delete" /\ last'.ret) =>
          /\ SelectMessages(messages', last'.arg) = <<>>
          /\ load_chat_session(db', last'.arg, FALSE) = {None}
          /\ OthersUnchanged(last'.arg)]_vars

\* a successful delete that removed message rows and left another stored
\* session behind
C6_Witness ==
    /\ last.op = "delete" /\ last.ret
    /\ last.deleted > 0
    /\ chat_sessions # {}
    /\ messages # <<>>

\* C7 as stated: delete returns true exactly when a session row with the id
\* existed before the call, and for an id without a row the store is
\* unchanged.
C7_DeleteTrueIffExisted ==
    [][(last'.op = "delete") =>
          /\ last'.ret = (SessionRowsOf(chat_sessions, last'.arg) # {})
          /\ (SessionRowsOf(chat_sessions, last'.arg) = {}) =>
                 (chat_sessions' = chat_sessions /\ messages' = messages)]_vars

\* C7 amended: delete returns true exactly when a session row with the id
\* existed before the call and no storage error occurred in the call; when
\* it returns false the store is unchanged.
C7_DeleteTrueIffExistedNoError ==
    [][(last'.op = "delete") =>
          /\ last'.ret = (SessionRowsOf(chat_sessions, last'.arg) # {}
                             /\ ~last'.fault)
          /\ ~last'.ret =>
                 (chat_sessions' = chat_sessions /\ messages' = messages)]_vars

\* a delete hit a storage error on a session that is stored
C7_Witness ==
    /\ last.op = "delete" /\ ~last.ret
    /\ last.fault
    /\ SessionRowsOf(chat_sessions, last.arg) # {}

\* the operations of ChatDatabase
DatabaseOps ==
    {"init_database", "save", "load", "get_all", "delete", "search",
     "statistics"}

\* C8: a storage error in an operation of ChatDatabase, the opening of the
\* store included, never leaves the call as an exception: save and delete
\* return false, load returns None, get_all and search return an empty
\* list, statistics returns an empty result.
C8_StorageErrorsAreCaught ==
    (last.op \in DatabaseOps /\ last.fault) =>
        /\ ~last.raised
        /\ last.op \in {"save", "delete"} => last.ret = FALSE
        /\ last.op = "load" => last.ret = None
        /\ last.op \in {"get_all", "search", "statistics"} => last.ret = <<>>

\* C2: every submission processed by _process_user_input runs to
\* completion: no exception leaves it and the current session's message
\* list has grown by exactly two messages, the USER message with the
\* submitted text followed by a BOT message, whichever model is current and
\* whatever the retrieval found.
C2_SubmissionAddsUserThenBot ==
    [][last'.op = "process_user_input" =>
          LET before == chat_session.messages
              after == chat_session'.messages
              n == Len(before)
          IN  /\ ~last'.raised
              /\ Len(after) = n + 2
              /\ SubSeq(after, 1, n) = before
              /\ after[n + 1].message_type = MessageType.USER
              /\ after[n + 1].content = last'.arg
              /\ after[n + 2].message_type = MessageType.BOT]_vars

\* C9: ModelManager.generate_response returns a non-empty string and raises
\* nothing, for every prompt and every state of the current service: a
\* service that is unavailable, a pipeline that raises, a pipeline whose
\* text is empty.
C9_GenerateAlwaysAnswers ==
    last.op = "generate_response" =>
        /\ ~last.raised
        /\ last.ret # <<>>
        /\ \A i \in 1..Len(last.ret) : last.ret[i] # ""

\* C9 witness: an available generative service is current, its pipeline
\* returned without raising and left nothing to answer with.
C9_Witness ==
    /\ last.op = "generate_response"
    /\ current_model.kind = "HuggingFaceModelService"
    /\ is_available(current_model, transformers_available)
    /\ ~last.fault
    /\ last.ret = <<"I'm not sure how to respond to that.">>

\* C10: after ModelManager initialisation the current model is the first
\* configured model, in configuration order, whose service was constructed
\* and loaded successfully, and that model is among the available models;
\* the current model is the fallback only when no configured model loaded.
C10_CurrentIsFirstLoaded ==
    last.op = "model_manager" =>
        LET loaded == {i \in 1..Len(ModelKeys) :
                          transformers_available /\ last.arg[i] = "loaded"}
        IN  IF loaded = {}
            THEN current_model.kind = "FallbackModelService"
            ELSE LET first == CHOOSE i \in loaded : \A o \in loaded : i <= o
                 IN  /\ current_model.kind = "HuggingFaceModelService"
                     /\ current_model.model_name = ModelId[first]
                     /\ ModelKeys[first] \in DOMAIN available_models
                     /\ available_models[ModelKeys[first]] = current_model

\* C11: set_model(name) returns true and makes the named service current
\* when name is a registered model or "fallback"; for any other name it
\* returns false and the current model is unchanged, so that a following
\* generate_response is answered as it was before the call.
C11_SetModelSwitchesOrRefuses ==
    [][last'.op = "set_model" =>
          LET name == last'.arg
          IN  /\ name \in DOMAIN available_models =>
                     last'.ret /\ current_model' = available_models[name]
              /\ (name \notin DOMAIN available_models /\ name = "fallback") =>
                     last'.ret /\ current_model' = FallbackModelService
              /\ (name \notin DOMAIN available_models /\ name # "fallback") =>
                     /\ ~last'.ret
                     /\ current_model' = current_model
                     /\ \A prompt \in Prompts :
                         \A out \in PipelineOutcomes(current_model,
                                        transformers_available) :
                            generate_response(current_model',
                                transformers_available, prompt, "", out)
                              = generate_response(current_model,
                                    transformers_available, prompt, "", out)]_vars

\* C11 witness: an unknown name was refused while a generative model with
\* a pipeline is current and other models are registered.
C11_Witness ==
    /\ last.op = "set_model" /\ last.arg = "nonexistent-model"
    /\ ~last.ret
    /\ current_model.kind = "HuggingFaceModelService"
    /\ is_available(current_model, transformers_available)
    /\ DOMAIN available_models # {}

\* C12: after initialisation the current model changes only through a
\* successful set_model call: no generate_response call (answered, failing,
\* or against an unavailable service) and no get_available_models or
\* get_model_status call changes which service is current.
C12_CurrentChangesOnlyBySetModel ==
    [][/\ current_model' # current_model =>
              (last'.op = "set_model" /\ last'.ret)
       /\ last'.op \in {"generate_response", "get_available_models",
                        "get_model_status"} =>
              (current_model' = current_model
                  /\ available_models' = available_models)]_vars

\* C12 witness: the pipeline of the current generative service failed in a
\* generate_response call, and that service is still current.
C12_Witness ==
    /\ last.op = "generate_response" /\ last.fault
    /\ last.ret = <<"Sorry, I encountered an error while processing your request.">>
    /\ current_model.kind = "HuggingFaceModelService"

\* C13: the fallback service is deterministic and stateless: for every
\* prompt its answer is the same whatever the context argument is, however
\* many calls were made before and whatever they asked; a prompt containing
\* "2+2" is answered "4".
C13_FallbackDeterministic ==
    [][(last'.op = "generate_response"
           /\ current_model.kind = "FallbackModelService") =>
          /\ \A c \in Contexts :
                 last'.ret = fallback_generate_response(last'.arg, c)
          /\ Contains(Chars[last'.arg], Chars["2+2"]) => last'.ret = <<"4">>
          /\ (last.op = "generate_response" /\ last.arg = last'.arg) =>
                 last'.ret = last.ret]_vars

\* C13 witness: the fallback answered "What is 2+2?" with "4".
C13_Witness ==
    /\ last.op = "generate_response"
    /\ current_model.kind = "FallbackModelService"
    /\ last.arg = "What is 2+2?"
    /\ last.ret = <<"4">>

\* the entries of the fallback's table whose pattern matches the prompt
MatchingEntries(prompt) ==
    {i \in 1..Len(FallbackResponses) :
        re_search(FallbackResponses[i].pattern, Chars[prompt])}

\* the answers the fallback gives from keywords, and its generic answers
KeywordAndGenericAnswers ==
    {"Hello! I'm currently in basic mode. How can I assist you today?",
     "I'm here to help! I can answer basic questions about math, geography, and general knowledge.",
     "That's an interesting question! Unfortunately, I'm running in basic mode and may not have the full answer.",
     "I understand you're trying to communicate with me. I'm currently in basic mode with limited capabilities."}

\* C14: for a prompt that matches several entries of the fallback's table
\* the answer is that of the entry first in table order; the keyword
\* answers and the generic answers are given only when no entry matches.
C14_FirstTableEntryWins ==
    (last.op = "generate_response"
        /\ current_model.kind = "FallbackModelService") =>
        LET hits == MatchingEntries(last.arg)
        IN  /\ hits # {} =>
                   \E i \in hits :
                       /\ \A o \in hits : i <= o
                       /\ last.ret = <<FallbackResponses[i].response>>
            /\ hits = {} =>
                   \E a \in KeywordAndGenericAnswers : last.ret = <<a>>
            /\ (\E a \in KeywordAndGenericAnswers : last.ret = <<a>>) =>
                   hits = {}

\* C14 witness: the prompt matched two entries of the table, the earlier of
\* them matching later in the text, and got the answer of the earlier one.
C14_Witness ==
    /\ last.op = "generate_response"
    /\ current_model.kind = "FallbackModelService"
    /\ MatchingEntries(last.arg) = {7, 9}
    /\ last.ret = <<FallbackResponses[7].response>>

\* a session is stored under this id
IsStored(session_id) == \E row \in chat_sessions : row.id = session_id

\* the vector backend is available: chromadb was imported and the collection
\* was created
BackendAvailable == chromadb_available /\ collection # None

\* the positions of the messages of a session whose trimmed content is longer
\* than 10 characters
LongPositions(session) ==
    {i \in 1..Len(session.messages) :
        Len(StripText(Chars[session.messages[i].content])) > 10}

\* the documents of coll that belong to this session
DocumentsOf(coll, session_id) ==
    {d \in coll[1] : d.metadata.session_id = session_id}

\* index_chat_session wrote one document per long message of the session it
\* loaded, with the id and message_index of the message's position, counted
\* from 0, replacing the documents with these ids and touching no other
UpsertedLongMessages ==
    /\ last'.ret.loaded # None
    /\ LET session == last'.ret.loaded[1]
           long == LongPositions(session)
           ids == {<<last'.arg, i - 1>> : i \in long}
       IN  /\ session.session_id = last'.arg
           /\ {d \in collection'[1] : d.id \notin ids}
                 = {d \in collection[1] : d.id \notin ids}
           /\ \A i \in long :
                 \E d \in collection'[1] :
                    /\ d.id = <<last'.arg, i - 1>>
                    /\ d.document = session.messages[i].content
                    /\ d.metadata.message_index = i - 1
                    /\ d.metadata.session_id = last'.arg
                    /\ \A e \in collection'[1] : e.id = d.id => e = d
           /\ \A i \in (1..Len(session.messages)) \ long :
                 \A d \in collection'[1] : d.id # <<last'.arg, i - 1>>

\* C15 as stated: index_chat_session(id) with an available backend and a
\* stored session upserts exactly one document per message whose trimmed
\* content is longer than 10 characters, with id "{id}_{i}" and message_index
\* i the message's position in the loaded session, and none for a shorter
\* message; when the session is not stored or the backend is unavailable it
\* returns false and leaves the index unchanged. A storage error of the load
\* or an error of the upsert breaks the first half.
C15_IndexesLongMessages ==
    [][last'.op = "index_chat_session"
          => IF BackendAvailable /\ IsStored(last'.arg)
             THEN UpsertedLongMessages
             ELSE last'.ret.ret = FALSE /\ collection' = collection]_vars

\* C15 amended: the same when neither the load nor the upsert fails; when one
\* of them fails the call returns false
C15_IndexesLongMessagesNoError ==
    [][last'.op = "index_chat_session"
          => IF BackendAvailable /\ IsStored(last'.arg)
             THEN IF last'.fault THEN last'.ret.ret = FALSE
                  ELSE UpsertedLongMessages
             ELSE last'.ret.ret = FALSE /\ collection' = collection]_vars

\* C15 witness: a stored session with a long message and a padded short one
\* was indexed without an error, and the index holds one document of it
C15_Witness ==
    /\ last.op = "index_chat_session"
    /\ ~last.fault
    /\ last.ret.ret = TRUE
    /\ Len(last.ret.loaded[1].messages) = 2
    /\ Cardinality(LongPositions(last.ret.loaded[1])) = 1
    /\ \E i \in 1..2 :
          Len(Chars[last.ret.loaded[1].messages[i].content]) > 10
              /\ i \notin LongPositions(last.ret.loaded[1])
    /\ Cardinality(DocumentsOf(collection, last.arg)) = 1

\* C16: index_chat_session called again on a stored session that did not
\* change since a call that indexed it leaves the index with the same set of
\* documents (ids, texts and metadata), so the number of documents does not
\* grow
C16_ReindexingIsIdempotent ==
    [][/\ last.op = "index_chat_session"
       /\ last.ret.ret = TRUE
       /\ last'.op = "index_chat_session"
       /\ last'.arg = last.arg
       /\ last'.ret.loaded \in {None, last.ret.loaded}
       => /\ collection' = collection
          /\ Cardinality(collection'[1]) = Cardinality(collection[1])]_vars

\* C16 witness: a session whose documents the index already held was indexed
\* again without an error, and the index holds as many documents of it
C16_Witness ==
    /\ last.op = "index_chat_session"
    /\ last.ret.ret = TRUE
    /\ last.ret.held > 0
    /\ Cardinality(DocumentsOf(collection, last.arg)) = last.ret.held

\* the stored sessions whose indexing meets no error in an index_all_sessions
\* call with these outcomes
IndexedWithoutError(outcomes) ==
    {id \in SessionIds : IsStored(id) /\ outcomes[id] = "ok"}

\* every session of this set has its long messages in the index after the
\* step, the others have the documents they had, and the call returned the
\* size of the set
IndexedExactly(good) ==
    /\ last'.ret = Cardinality(good)
    /\ \A id \in good :
          \E loaded \in load_chat_session(db, id, FALSE) :
             /\ loaded # None
             /\ \A i \in LongPositions(loaded[1]) :
                   \E d \in collection'[1] :
                      /\ d.id = <<id, i - 1>>
                      /\ d.document = loaded[1].messages[i].content
    /\ \A id \in SessionIds \ good :
          \/ DocumentsOf(collection', id) = DocumentsOf(collection, id)
          \/ last'.arg[id] = "upsert raises after writing"

\* C17 as stated: index_all_sessions attempts index_chat_session for every
\* stored session record even when indexing of some sessions fails, and
\* returns the number of sessions for which index_chat_session succeeded; a
\* failure on one session neither raises nor stops the remaining sessions
\* from being indexed. A storage error of the listing breaks it: no session
\* is attempted.
C17_IndexAllAttemptsEverySession ==
    [][last'.op = "index_all_sessions"
          => /\ ~last'.raised
             /\ IF BackendAvailable
                THEN IndexedExactly(IndexedWithoutError(last'.arg))
                ELSE last'.ret = 0 /\ collection' = collection]_vars

\* C17 amended: the same for every session record the listing returns; when
\* the listing hits a storage error no session is indexed and 0 is returned
C17_IndexAllAttemptsEveryListedSession ==
    [][last'.op = "index_all_sessions"
          => /\ ~last'.raised
             /\ IF BackendAvailable /\ ~last'.fault
                THEN IndexedExactly(IndexedWithoutError(last'.arg))
                ELSE last'.ret = 0 /\ collection' = collection]_vars

\* C17 witness: index_all_sessions ran over two stored sessions, the indexing
\* of one failed, and the other was indexed and counted
C17_Witness ==
    /\ last.op = "index_all_sessions"
    /\ ~last.fault
    /\ last.ret = 1
    /\ \E a, b \in SessionIds :
          /\ IsStored(a) /\ IsStored(b)
          /\ last.arg[a] = "upsert raises"
          /\ last.arg[b] = "ok"
          /\ DocumentsOf(collection, a) = {}
          /\ DocumentsOf(collection, b) # {}

\* the list is a result of the substring search the call asked for: the
\* rows search_messages returns, each as a match with its content and the
\* session id, session name, message type and timestamp of its row
IsTextSearchResult(result, arg) ==
    \E rows \in search_messages(db, arg.query, arg.max_results,
                                arg.storage_error) :
       /\ Len(result) = Len(rows)
       /\ \A i \in 1..Len(rows) :
             /\ result[i].content = rows[i].content
             /\ result[i].metadata.session_id = rows[i].session_id
             /\ result[i].metadata.session_name = rows[i].session_name
             /\ result[i].metadata.message_type = rows[i].message_type
             /\ result[i].metadata.timestamp = rows[i].timestamp

\* C18: when the vector backend raises during get_relevant_context the call
\* does not fail and returns the result of the substring search against the
\* relational store, every match with source "text_search" and relevance
\* score 0.5; the matches the vector backend produces have source
\* "vector_search"
C18_BackendErrorFallsBackToTextSearch ==
    [][last'.op = "get_relevant_context" /\ BackendAvailable
          => /\ ~last'.raised
             /\ IF last'.fault
                THEN /\ IsTextSearchResult(last'.ret, last'.arg)
                     /\ \A i \in 1..Len(last'.ret) :
                           /\ last'.ret[i].source = "text_search"
                           /\ last'.ret[i].relevance_score = "0.5"
                ELSE \A i \in 1..Len(last'.ret) :
                        /\ last'.ret[i].source = "vector_search"
                        /\ \E d \in collection[1] :
                              d.document = last'.ret[i].content]_vars

\* C18 witness: the index holds documents, the query of the backend raised,
\* and the call returned a match of the substring search
C18_Witness ==
    /\ last.op = "get_relevant_context"
    /\ BackendAvailable
    /\ collection[1] # {}
    /\ last.fault
    /\ ~last.arg.storage_error
    /\ Len(last.ret) > 0
    /\ last.ret[1].source = "text_search"

\* the query has a character the LIKE operator reads as a wildcard
HasWildcard(query) ==
    \E i \in 1..Len(Chars[query]) : Chars[query][i] \in {"%", "_"}

\* a stored message contains the query text, letter case set aside
SomeStoredMessageContains(query) ==
    \E i \in 1..Len(messages) :
       Contains(Lower(Chars[messages[i].content]), Lower(Chars[query]))

\* C19: when the vector backend is unavailable or holds no indexed documents,
\* get_relevant_context(query) returns only stored messages whose content
\* contains the query text, each with source "text_search", and returns such
\* a match whenever a stored message contains the query (calls without a
\* storage error, queries without a LIKE wildcard, letter case set aside). An
\* available backend with an empty collection answers with nothing and no
\* substring search is made.
C19_EmptyBackendFallsBackToTextSearch ==
    [][/\ last'.op = "get_relevant_context"
       /\ ~last'.arg.storage_error
       /\ ~HasWildcard(last'.arg.query)
       /\ (~BackendAvailable \/ collection[1] = {})
       => /\ \A i \in 1..Len(last'.ret) :
                /\ last'.ret[i].source = "text_search"
                /\ Contains(Lower(Chars[last'.ret[i].content]),
                            Lower(Chars[last'.arg.query]))
          /\ SomeStoredMessageContains(last'.arg.query)
                => Len(last'.ret) > 0]_vars

\* the documents of coll that belong to other sessions than this one
DocumentsOfOthers(coll, session_id) ==
    {d \in coll[1] : d.metadata.session_id # session_id}

\* C20 as stated: remove_session_from_index(id) with an available backend
\* deletes every indexed document whose metadata session_id equals id and no
\* document of any other session, and returns true; with an unavailable
\* backend it changes nothing and returns true. A get or delete of the
\* backend that raises breaks the first half.
C20_RemoveDeletesSessionDocuments ==
    [][last'.op = "remove_session_from_index"
          => /\ last'.ret.ret = TRUE
             /\ IF BackendAvailable
                THEN /\ DocumentsOf(collection', last'.arg) = {}
                     /\ DocumentsOfOthers(collection', last'.arg)
                           = DocumentsOfOthers(collection, last'.arg)
                ELSE collection' = collection]_vars

\* C20 amended: with an available backend no document of another session is
\* deleted; the call returns true when no get or delete of the backend
\* raises, and then no document of the session is left; it returns false
\* only when one of them raises. With an unavailable backend it changes
\* nothing and returns true.
C20_RemoveDeletesSessionDocumentsNoError ==
    [][last'.op = "remove_session_from_index"
          => IF BackendAvailable
             THEN /\ DocumentsOfOthers(collection', last'.arg)
                        = DocumentsOfOthers(collection, last'.arg)
                  /\ ~last'.fault => last'.ret.ret = TRUE
                  /\ IF last'.ret.ret
                     THEN DocumentsOf(collection', last'.arg) = {}
                     ELSE last'.fault
             ELSE last'.ret.ret = TRUE /\ collection' = collection]_vars

\* C20 witness: the index held documents of two sessions, the documents of
\* one were removed without an error and those of the other are still there
C20_Witness ==
    /\ last.op = "remove_session_from_index"
    /\ ~last.fault
    /\ last.ret.ret = TRUE
    /\ last.ret.held > 0
    /\ BackendAvailable
    /\ DocumentsOf(collection, last.arg) = {}
    /\ DocumentsOfOthers(collection, last.arg) # {}

\* t begins with the characters of head
StartsWith(t, head) ==
    Len(t) >= Len(head) /\ SubSeq(t, 1, Len(head)) = head

\* C21: build_context_prompt(query) returns exactly the query string whenever
\* retrieval yields no match (empty store, no match, retrieval failure); it
\* returns the templated prompt only when at least one match was retrieved,
\* and then uses at most 3 matches
C21_PromptIsQueryWithoutMatches ==
    last.op = "build_context_prompt"
        => LET query == last.arg.query
               relevant == last.arg.relevant_context
           IN  /\ relevant = <<>> <=> last.ret = Chars[query]
               /\ messages = <<>> => last.ret = Chars[query]
               /\ ~SomeStoredMessageContains(query) /\ ~HasWildcard(query)
                     => last.ret = Chars[query]
               /\ relevant # <<>>
                     => /\ Len(relevant) <= 3
                        /\ StartsWith(last.ret,
                               Chars["Context from previous conversations:"])
                        /\ \A i \in 1..Len(relevant) :
                              Contains(last.ret,
                                  <<"\n">> \o ItemNumber(i) \o <<".", " ">>
                                      \o Chars[relevant[i].content])
                        /\ ~Contains(last.ret, <<"\n", "4", ".", " ">>)

\* C21 witness: more than 3 stored messages match the query and the prompt
\* was built around 3 of them
C21_Witness ==
    /\ last.op = "build_context_prompt"
    /\ Cardinality(SearchMatches(db, last.arg.query)) > 3
    /\ Len(last.arg.relevant_context) = 3
    /\ last.ret # Chars[last.arg.query]

\* the context portion of a templated prompt: what stands between the first
\* line and the question
ContextPortion(prompt, query) ==
    SubSeq(prompt, Len(PromptHead) + 1, Len(prompt) - Len(PromptTail(query)))

C23_UpdatedNotBeforeCreated ==
    [][/\ chat_session'.updated_at >= chat_session'.created_at
       /\ last'.op = "add_message"
             => /\ chat_session'.updated_at >= chat_session.updated_at
                /\ Len(chat_session'.messages)
                      = Len(chat_session.messages) + 1
                /\ SubSeq(chat_session'.messages, 1,
                          Len(chat_session.messages))
                      = chat_session.messages]_vars

\* C24: load_saved_session(id) replaces the current session wholesale with
\* the stored session and returns true when id is stored; when id is not
\* stored or the load fails it returns false and the current session, its
\* messages included, is left unchanged; in both cases the current session of
\* the instance is the one of the process-wide state
C24_LoadReplacesOrLeaves ==
    [][last'.op = "load_saved_session"
          => /\ IF IsStored(last'.arg) /\ ~last'.fault
                THEN /\ last'.ret = TRUE
                     /\ \E r \in load_chat_session(db, last'.arg, FALSE) :
                           chat_session' = r[1]
                     /\ chat_session'.session_id = last'.arg
                ELSE /\ last'.ret = FALSE
                     /\ chat_session' = chat_session
             /\ session_state'.chat_session = chat_session']_vars

\* C24 witness: a stored session of two messages, not the one the session
\* manager began with, was loaded and is the current session
C24_Witness ==
    /\ last.op = "load_saved_session"
    /\ last.ret = TRUE
    /\ last.arg # 1
    /\ chat_session.session_id = last.arg
    /\ Len(chat_session.messages) = 2
    /\ session_state.chat_session = chat_session

\* the stored message rows whose content contains the query, letter case set
\* aside, and whose session record exists
ContainingRows(query) ==
    {k \in 1..Len(messages) :
        /\ Contains(Lower(Chars[messages[k].content]), Lower(Chars[query]))
        /\ IsStored(messages[k].session_id)}

\* the match is this stored message row
IsRow(match, k) ==
    /\ match.content = messages[k].content
    /\ match.session_id = messages[k].session_id
    /\ match.timestamp = messages[k].timestamp
    /\ match.message_type = messages[k].message_type

\* what C25 says of a search for these queries that met no storage error
SearchReturnsNewestContaining(queries) ==
    last.op = "search" /\ ~last.fault /\ last.arg[1] \in queries
        => LET query == last.arg[1]
               limit == last.arg[2]
               found == last.ret
           IN  /\ Len(found) <= limit
               /\ \A i \in 1..Len(found) :
                     \E k \in ContainingRows(query) : IsRow(found[i], k)
               /\ \A i, j \in 1..Len(found) :
                     i < j => ~TextLess(found[i].timestamp,
                                        found[j].timestamp)
               /\ \A k \in ContainingRows(query) :
                     (\E i \in 1..Len(found) :
                         TextLess(found[i].timestamp, messages[k].timestamp))
                         => \E j \in 1..Len(found) : IsRow(found[j], k)
               /\ Len(found) < limit
                     => \A k \in ContainingRows(query) :
                           \E j \in 1..Len(found) : IsRow(found[j], k)

\* C25: search_messages(query, limit) returns at most limit matches, every
\* one a stored message whose content contains the query compared without
\* regard to case and whose session record exists, ordered from the newest
\* timestamp to the oldest, and these are the newest matching messages. The
\* query goes into the LIKE pattern as it is, so its "_" and "%" match
\* other characters.
C25_SearchReturnsNewestMatches == SearchReturnsNewestContaining(Queries)

RECURSIVE SumOfCounts(_)
\* the sum of message_count over a list of session records
SumOfCounts(listed) ==
    IF listed = <<>> THEN 0
    ELSE Head(listed).message_count + SumOfCounts(Tail(listed))

\* C26: after any sequence of save_chat_session and delete_chat_session
\* calls, successful or failing, every stored session record's message_count
\* is the number of stored message rows with its session id, every stored
\* message row belongs to a stored session record, and the total message
\* count that statistics reports is the sum of message_count over the
\* listed sessions.
C26_StoreIsConsistent ==
    /\ \A r \in chat_sessions :
          r.message_count = Len(SelectMessages(messages, r.id))
    /\ \A i \in 1..Len(messages) :
          \E r \in chat_sessions : r.id = messages[i].session_id
    /\ \A listed \in get_all_chat_sessions(db, FALSE) :
          get_chat_statistics(db, FALSE)[1].total_messages
              = SumOfCounts(listed)

\* C26 witness: a save that failed after its first statements left a store
\* that holds a session saved earlier with fewer messages than it has now
C26_Witness ==
    /\ last.op = "save" /\ last.fault /\ ~last.ret /\ last.deleted >= 1
    /\ \E r \in chat_sessions :
          /\ r.id = chat_session.session_id
          /\ r.message_count >= 1
          /\ r.message_count < Len(chat_session.messages)
    /\ Len(messages) >= 1

\* the indexed documents whose metadata names this session
IndexedFor(session_id) ==
    IF collection = None THEN {}
    ELSE {d \in collection[1] : d.metadata.session_id = session_id}

\* C27: after any sequence of save_current_session and delete_saved_session
\* calls, including ones in which a call of the vector backend fails, every
\* indexed document's session_id names a session that is present in the
\* store, and after delete_saved_session(id) returned true no indexed
\* document with session_id = id remains.
C27_IndexedSessionsAreStored ==
    /\ \A id \in SessionIds :
          IndexedFor(id) # {} => \E r \in chat_sessions : r.id = id
    /\ last.op = "delete_saved_session" /\ last.ret
          => IndexedFor(last.arg.session_id) = {}

\* C28: after every save_current_session and delete_saved_session call,
\* successful or failed, the cached list st.session_state.saved_chats is
\* the store's current list of session records: the same ids, names and
\* message counts in the same order (one of the orders the listing can
\* have when two records carry the same updated_at).
C28_SavedChatsIsStoreListing ==
    last.op \in {"save_current_session", "delete_saved_session"}
        => session_state.saved_chats \in get_all_chat_sessions(db, FALSE)

IsNewSession(session, drawn) ==
    /\ session.session_id \notin drawn
    /\ Len(session.messages) = 1
    /\ session.messages[1].content = WelcomeText
    /\ session.messages[1].message_type = "BOT"

\* C30: constructing a SessionManager when a current session exists in
\* st.session_state adopts that session unchanged, with the same id and the
\* same messages in the same order; a new session, with a fresh id and
\* exactly one welcome message of the bot, is created only when no current
\* session exists or on clear_session; neither touches the store.
C30_ConstructionAdoptsSession ==
    [][/\ (last'.op = "SessionManager" /\ ~last'.raised
              /\ ~last'.arg.new_browser_session)
           => /\ chat_session' = session_state.chat_session
              /\ session_state'.chat_session = session_state.chat_session
       /\ (last'.op = "SessionManager" /\ ~last'.raised
              /\ last'.arg.new_browser_session)
           => /\ IsNewSession(chat_session', issued)
              /\ session_state'.chat_session = chat_session'
       /\ last'.op = "clear_session"
           => /\ IsNewSession(chat_session', issued)
              /\ session_state'.chat_session = chat_session'
       /\ chat_session'.session_id \notin issued
           => \/ last'.op = "clear_session"
              \/ /\ last'.op = "SessionManager"
                 /\ last'.arg.new_browser_session
       /\ last'.op \in {"SessionManager", "clear_session"}
           => chat_sessions' = chat_sessions /\ messages' = messages]_vars

\* C30 witness: a rerun over a non-empty store has adopted a session that
\* holds two messages
C30_Witness ==
    /\ last.op = "SessionManager" /\ ~last.raised
    /\ ~last.arg.new_browser_session
    /\ Len(chat_session.messages) = 2
    /\ session_state.chat_session = chat_session
    /\ chat_sessions # {}
====
